---- MODULE Spec2Model ----
(***************************************************************************)
(* A model of node-simple-server: the Server node tree (index.js) with its *)
(* endpoint, subdomain and status-handler tables, the request dispatcher,  *)
(* the access policy (Server.info) and the WebSocket upgrade multiplexer   *)
(* (lib/websocket.js).                                                     *)
(*                                                                         *)
(* JavaScript strings are TLA+ strings; the String and Array methods the   *)
(* code calls are the operators of the first section, written to do what   *)
(* the JavaScript methods do (replace() replaces the FIRST occurrence,     *)
(* the in operator sees Object.prototype, decodeURI throws on a malformed  *)
(* escape, ...).                                                           *)
(***************************************************************************)
EXTENDS Integers, Sequences, FiniteSets, TLC

(***************************************************************************)
(* Bounds of the model.                                                    *)
(***************************************************************************)
\* Server nodes (roots and subdomains) that are ever constructed.
MaxServers == 3
\* Requests that arrive on the listeners in one behaviour.
MaxRequests == 1
\* Websocket handles that are ever constructed.
MaxWebsockets == 2

(***************************************************************************)
(* JavaScript values and built-ins.                                        *)
(***************************************************************************)
\* The value of a missing header or property.
undefined == "undefined"

\* Error classes a step can throw; NoError when it returns normally.
NoError == ""

RECURSIVE indexOfFrom(_, _, _)
indexOfFrom(s, t, i) ==
    IF i + Len(t) - 1 > Len(s) THEN 0
    ELSE IF SubSeq(s, i, i + Len(t) - 1) = t THEN i
    ELSE indexOfFrom(s, t, i + 1)

\* String.prototype.indexOf, 1-based; 0 when t does not occur in s.
indexOf(s, t) == indexOfFrom(s, t, 1)

\* String.prototype.includes
includes(s, t) == indexOf(s, t) # 0

\* String.prototype.startsWith
startsWith(s, t) == Len(t) <= Len(s) /\ SubSeq(s, 1, Len(t)) = t

\* String.prototype.endsWith
endsWith(s, t) == Len(t) <= Len(s) /\ SubSeq(s, Len(s) - Len(t) + 1, Len(s)) = t

\* String.prototype.replace(pattern, replacement) with a string pattern:
\* only the first occurrence is replaced.
replace(s, t, r) ==
    LET i == indexOf(s, t)
    IN  IF i = 0 THEN s
        ELSE SubSeq(s, 1, i - 1) \o r \o SubSeq(s, i + Len(t), Len(s))

RECURSIVE split(_, _)
\* String.prototype.split(separator)
split(s, sep) ==
    LET i == indexOf(s, sep)
    IN  IF i = 0 THEN <<s>>
        ELSE <<SubSeq(s, 1, i - 1)>> \o split(SubSeq(s, i + Len(sep), Len(s)), sep)

\* Array.prototype.at(k) for a negative k; undefined when out of range.
at(arr, k) == IF Len(arr) + k >= 0 /\ k < 0 THEN arr[Len(arr) + k + 1] ELSE undefined

Digits == <<"0", "1", "2", "3", "4", "5", "6", "7", "8", "9">>

RECURSIVE toString(_)
\* Number.prototype.toString, as applied by ":" + this.port
toString(n) ==
    IF n < 10 THEN Digits[n + 1]
    ELSE toString(n \div 10) \o Digits[(n % 10) + 1]

\* Property names every plain object {} inherits from Object.prototype.
ObjectPrototypeKeys ==
    {"constructor", "toString", "valueOf", "hasOwnProperty", "isPrototypeOf",
     "propertyIsEnumerable", "toLocaleString", "__proto__"}

\* The JavaScript "key in obj" operator on a plain object: own keys and the
\* keys of Object.prototype.
In(key, obj) == key \in DOMAIN obj \/ key \in ObjectPrototypeKeys

\* The empty object {}.
EmptyObject == [k \in {} |-> 0]

\* obj[key] = value
Put(obj, key, value) == [k \in DOMAIN obj \cup {key} |-> IF k = key THEN value ELSE obj[k]]

\* String.prototype.toUpperCase on the method tokens of the model.
toUpperCase(s) ==
    CASE s = "get" -> "GET"
      [] s = "post" -> "POST"
      [] OTHER -> s

IsHex(c) == includes("0123456789abcdefABCDEF", c)

\* The character an escape sequence of the model's URLs stands for.  decodeURI
\* leaves the escapes of reserved characters ("/" is one) as they are.
Unescape(code) ==
    CASE code = "%70" -> "p"
      [] code \in {"%2e", "%2E"} -> "."
      [] code = "%25" -> "%"
      [] code \in {"%2f", "%2F"} -> code

RECURSIVE decodeURIFrom(_, _)
decodeURIFrom(s, i) ==
    IF i > Len(s) THEN [error |-> NoError, value |-> ""]
    ELSE IF SubSeq(s, i, i) # "%"
    THEN LET r == decodeURIFrom(s, i + 1)
         IN  [error |-> r.error, value |-> SubSeq(s, i, i) \o r.value]
    ELSE IF i + 2 > Len(s) \/ ~IsHex(SubSeq(s, i + 1, i + 1)) \/ ~IsHex(SubSeq(s, i + 2, i + 2))
    THEN [error |-> "URIError", value |-> ""]
    ELSE LET r == decodeURIFrom(s, i + 3)
         IN  [error |-> r.error, value |-> Unescape(SubSeq(s, i, i + 2)) \o r.value]

\* decodeURI(s): the decoded string, or error = "URIError" for a "%" that does
\* not start a well-formed escape sequence.
decodeURI(s) == decodeURIFrom(s, 1)

\* The part of s before the first occurrence of c (all of s when there is none).
Before(s, c) == IF includes(s, c) THEN SubSeq(s, 1, indexOf(s, c) - 1) ELSE s

IsSingleDot(seg) == seg \in {".", "%2e", "%2E"}
IsDoubleDot(seg) == seg \in {"..", ".%2e", ".%2E", "%2e.", "%2E.", "%2e%2e", "%2E%2E", "%2e%2E", "%2E%2e"}

RECURSIVE RemoveDotSegments(_, _)
\* The URL parser's path state: a single-dot segment is dropped, a double-dot
\* segment drops the segment before it; either, when last, leaves an empty one.
RemoveDotSegments(segs, acc) ==
    IF segs = <<>> THEN acc
    ELSE LET seg == Head(segs)
             last == IF Len(segs) = 1 THEN <<"">> ELSE <<>>
         IN  IF IsDoubleDot(seg)
             THEN RemoveDotSegments(Tail(segs),
                      (IF acc = <<>> THEN acc ELSE SubSeq(acc, 1, Len(acc) - 1)) \o last)
             ELSE IF IsSingleDot(seg)
             THEN RemoveDotSegments(Tail(segs), acc \o last)
             ELSE RemoveDotSegments(Tail(segs), Append(acc, seg))

RECURSIVE join(_, _)
\* Array.prototype.join
join(arr, sep) ==
    IF arr = <<>> THEN ""
    ELSE IF Len(arr) = 1 THEN arr[1]
    ELSE arr[1] \o sep \o join(Tail(arr), sep)

\* new URL("http://" + host + path).pathname, for a host without "/", "?" or
\* "#": the path up to the query or fragment, its dot-segments removed.
URLpathname(host, path) ==
    LET raw  == Before(Before(path, "?"), "#")
        segs == IF startsWith(raw, "/") THEN split(SubSeq(raw, 2, Len(raw)), "/")
                ELSE split(raw, "/")
    IN  "/" \o join(RemoveDotSegments(segs, <<>>), "/")

(***************************************************************************)
(* The state.                                                              *)
(*                                                                         *)
(* Objects are numbered in the order of their construction: a Server is an *)
(* index of servers, a Websocket an index of websockets, an http.Server    *)
(* (the shared listener) is the index of the root Server that created it,  *)
(* an IP array an index of arrays.                                         *)
(***************************************************************************)
VARIABLES
    servers,          \* Server objects: domain, port, flags, customData, parentServer, _httpServer
    endpoints,        \* Server.#endpoints of each server: path -> [callback, methods]
    subdomains,       \* Server.#subdomains of each server: label -> server
    statusHandelers,  \* Server.#statusHandelers of each server: status code -> callback
    info,             \* Server.info of each server: the two mode flags and the two array references
    arrays,           \* the IP arrays info refers to, as the set of their members
    httpServers,      \* http.Server objects: listening, port, number of "upgrade" listeners
    WEBSOCKETS,       \* lib/websocket.js WEBSOCKETS: path -> websocket
    websockets,       \* Websocket objects: endpoint, parentServer, eventListers, connected
    upgrades,         \* the upgrade requests received so far, each with the socket it led to
    marks,            \* the id stored on each listener callback (Websocket.#callbackSymbol)
    requests,         \* the HTTP requests received so far, each with its response
    registered,       \* history: the first successful endpoint() registration of each path
    stderr            \* the last console.error line and the server that printed it

vars == <<servers, endpoints, subdomains, statusHandelers, info, arrays, httpServers,
          WEBSOCKETS, websockets, upgrades, marks, requests, registered, stderr>>

\* Whether the optional "ws" package is installed (lib/websocket.js WS_INSTALLED).
WS_INSTALLED == TRUE

\* options.port ?? 1200
DefaultPort == 1200

FILESYSTEM == "flags:FILESYSTEM"
HIDESTATUSLOGS == "flags:HIDESTATUSLOGS"
_SUBDOMAIN == "flags:_SUBDOMAIN"

Nobody == 0
NoLine == [server |-> Nobody, line |-> ""]

Ids == 1..Len(servers)

Min(S) == CHOOSE x \in S : \A y \in S : x <= y

\* The class field initialiser of Server.info: both modes off, two fresh arrays.
NewInfo(a1, a2) ==
    [whitelistEnabled |-> FALSE, blacklistEnabled |-> FALSE,
     whitelistedIps |-> a1, blacklistedIps |-> a2]

\* Mutant of Constructor: a subdomain gets a listener of its own.
ConstructorOwnListener(options, self) ==
    LET sub == _SUBDOMAIN \in options.flags
        parent == options.customData.subdomainServerReference
    IN  [domain       |-> options.domain,
         port         |-> options.port,
         flags        |-> options.flags,
         customData   |-> options.customData,
         parentServer |-> IF sub THEN parent ELSE Nobody,
         _httpServer  |-> self]

\* new Server(options): the object the constructor builds.  A server with the
\* _SUBDOMAIN flag takes its listener from options.customData.subdomainServerReference.
Constructor(options, self) ==
    LET sub == _SUBDOMAIN \in options.flags
        parent == options.customData.subdomainServerReference
    IN  [domain       |-> options.domain,
         port         |-> options.port,
         flags        |-> options.flags,
         customData   |-> options.customData,
         parentServer |-> IF sub THEN parent ELSE Nobody,
         _httpServer  |-> IF sub THEN servers[parent]._httpServer ELSE self]

\* Mutant of fullDomain: the branch for subdomains is missing.
fullDomainOfRoot(n) == servers[n].domain \o ":" \o toString(servers[n].port)

RECURSIVE fullDomain(_)
\* The fullDomain getter of server n
fullDomain(n) ==
    IF _SUBDOMAIN \in servers[n].flags
    THEN servers[n].domain \o "." \o fullDomain(servers[n].parentServer)
    ELSE servers[n].domain \o ":" \o toString(servers[n].port)

\* The option records of the model: the port defaults to 1200.
Options(domain, port, flags, rootDirectory, parent) ==
    [domain |-> domain, port |-> port, flags |-> flags,
     customData |-> [rootDirectory |-> rootDirectory, subdomainServerReference |-> parent]]

(***************************************************************************)
(* Registration: endpoint(), subdomain(), status(), removeAllSubdomains(). *)
(***************************************************************************)
\* The methods argument of endpoint(): omitted, one string, or an array.
MethodsOmitted == [type |-> "undefined", list |-> <<>>]
MethodsString(m) == [type |-> "string", list |-> <<m>>]
MethodsArray(list) == [type |-> "array", list |-> list]

\* The methods an endpoint stores: null, or the array in upper case.
null == [type |-> "null", list |-> <<>>]

\* index.js 155-159: a string becomes a one-element array, anything that is
\* not an array becomes null, the elements of an array are upper-cased.
NormalizeMethods(methods) ==
    LET m == IF methods.type = "string" THEN MethodsArray(methods.list) ELSE methods
    IN  IF m.type # "array" THEN null
        ELSE MethodsArray([i \in 1..Len(m.list) |-> toUpperCase(m.list[i])])

Origin(n) == "http://" \o servers[n].domain \o ":" \o toString(servers[n].port)

\* The endpoint table after a successful endpoint(path, callback, methods).
EndpointsAfter(table, path, callback, methods) ==
    Put(table, path, [callback |-> callback, methods |-> NormalizeMethods(methods)])

\* Mutant of EndpointTaken: the duplicate check is missing.
EndpointTakenNever(n, path) == FALSE

\* index.js 151: path in this.#endpoints
EndpointTaken(n, path) == In(path, endpoints[n])

\* Server.endpoint(path, callback, methods)
Endpoint(n, path, callback, methods) ==
    /\ n \in Ids
    /\ IF path = ""
       THEN /\ stderr' = [server |-> n, line |-> "Cannot add an endpoint without a path."]
            /\ UNCHANGED <<endpoints, registered>>
       ELSE IF EndpointTaken(n, path)
       THEN /\ stderr' = [server |-> n, line |-> "Cannot overwrite " \o Origin(n) \o path]
            /\ UNCHANGED <<endpoints, registered>>
       ELSE /\ endpoints' = [endpoints EXCEPT ![n] = EndpointsAfter(@, path, callback, methods)]
            /\ registered' = [registered EXCEPT ![n] =
                   IF path \in DOMAIN @ THEN @
                   ELSE Put(@, path, [callback |-> callback, methods |-> NormalizeMethods(methods)])]
            /\ UNCHANGED stderr
    /\ UNCHANGED <<servers, subdomains, statusHandelers, info, arrays, httpServers,
                   WEBSOCKETS, websockets, upgrades, marks, requests>>

\* Mutant of SubdomainTaken: the duplicate check is missing.
SubdomainTakenNever(n, domain) == FALSE

\* index.js 177: options.domain in this.#subdomains
SubdomainTaken(n, domain) == In(domain, subdomains[n])

\* Server.subdomain(options): options.flags gets _SUBDOMAIN pushed, the new
\* server takes the mode flags and the ARRAYS (by reference) of this.info.
Subdomain(n, domain, flags, rootDirectory) ==
    /\ n \in Ids
    /\ IF domain = ""
       THEN /\ stderr' = [server |-> n, line |-> "Cannot add subdomain without a name."]
            /\ UNCHANGED <<servers, endpoints, subdomains, statusHandelers, info, registered>>
       ELSE IF SubdomainTaken(n, domain)
       THEN /\ stderr' = [server |-> n, line |-> "Cannot overwrite http://" \o domain \o "."
                                        \o servers[n].domain \o ":" \o toString(servers[n].port)]
            /\ UNCHANGED <<servers, endpoints, subdomains, statusHandelers, info, registered>>
       ELSE /\ Len(servers) < MaxServers
            /\ LET self == Len(servers) + 1
                   options == Options(domain, DefaultPort, flags \cup {_SUBDOMAIN}, rootDirectory, n)
               IN  /\ servers' = Append(servers, Constructor(options, self))
                   /\ endpoints' = Append(endpoints, EmptyObject)
                   /\ subdomains' = [Append(subdomains, EmptyObject) EXCEPT ![n] = Put(@, domain, self)]
                   /\ statusHandelers' = Append(statusHandelers, EmptyObject)
                   /\ info' = Append(info, info[n])
                   /\ registered' = Append(registered, EmptyObject)
            /\ UNCHANGED stderr
    /\ UNCHANGED <<arrays, httpServers, WEBSOCKETS, websockets, upgrades, marks, requests>>

\* Server.removeAllSubdomains()
RemoveAllSubdomains(n) ==
    /\ n \in Ids
    /\ subdomains' = [subdomains EXCEPT ![n] = EmptyObject]
    /\ UNCHANGED <<servers, endpoints, statusHandelers, info, arrays, httpServers,
                   WEBSOCKETS, websockets, upgrades, marks, requests, registered, stderr>>

\* The statusCode argument of status(): a number, or a value of another type.
StatusCode(code) == [type |-> "number", value |-> code]
StatusText(code) == [type |-> "string", value |-> code]

\* The module-level constant "path" (require("path")) as a property name.
pathModuleKey == "[object Object]"

\* Mutant of StatusTaken: the duplicate check tests the status code.
StatusTakenByCode(n, statusCode) == In(toString(statusCode.value), statusHandelers[n])

\* index.js 213: path in this.#statusHandelers, where path is the module.
StatusTaken(n, statusCode) == In(pathModuleKey, statusHandelers[n])

\* Server.status(statusCode, callback).  The duplicate check of line 213
\* tests the path module, not the status code.
Status(n, statusCode, callback) ==
    /\ n \in Ids
    /\ IF statusCode.type # "number"
       THEN /\ stderr' = [server |-> n, line |-> "Invalid status code."]
            /\ UNCHANGED statusHandelers
       ELSE IF StatusTaken(n, statusCode)
       THEN /\ stderr' = [server |-> n, line |-> "Cannot overwrite status code: " \o toString(statusCode.value)]
            /\ UNCHANGED statusHandelers
       ELSE /\ statusHandelers' = [statusHandelers EXCEPT ![n] = Put(@, toString(statusCode.value), callback)]
            /\ UNCHANGED stderr
    /\ UNCHANGED <<servers, endpoints, subdomains, info, arrays, httpServers,
                   WEBSOCKETS, websockets, upgrades, marks, requests, registered>>

(***************************************************************************)
(* The access policy: Server.info.                                         *)
(***************************************************************************)
\* Server.fixedIpAddress on a machine without a "Wi-Fi" interface.
fixedIpAddress == "localhost"

\* index.js 388 and 404: this machine's address and "local" mean 127.0.0.1.
NormalizeIp(ip) == IF ip = fixedIpAddress \/ ip = "local" THEN "127.0.0.1" ELSE ip

\* Server.getIP(request)
getIP(request) ==
    LET a == request.remoteAddress
        b == IF startsWith(a, "::ffff:") THEN replace(a, "::ffff:", "") ELSE a
    IN  IF b = "::1" THEN "127.0.0.1" ELSE b

\* Server.info.shouldLogFromRequest(request) of server n
shouldLogFromRequest(n, request) ==
    IF info[n].whitelistEnabled THEN getIP(request) \in arrays[info[n].whitelistedIps]
    ELSE IF info[n].blacklistEnabled THEN getIP(request) \notin arrays[info[n].blacklistedIps]
    ELSE TRUE

\* The arrays that stay after info becomes inf: those inf refers to; new ones are empty.
Collect(inf) ==
    LET used == UNION {{inf[n].whitelistedIps, inf[n].blacklistedIps} : n \in DOMAIN inf}
    IN  [a \in used |-> IF a \in DOMAIN arrays THEN arrays[a] ELSE {}]

\* Two array references no server other than n holds.
FreshPair(n) ==
    LET held == UNION {{info[m].whitelistedIps, info[m].blacklistedIps} : m \in DOMAIN info \ {n}}
        a1 == Min((1..(2 * Len(info) + 2)) \ held)
        a2 == Min((1..(2 * Len(info) + 2)) \ (held \cup {a1}))
    IN  <<a1, a2>>

\* The mode flags after info.enableAll()
EnableAllFlags(i) == [i EXCEPT !.whitelistEnabled = FALSE, !.blacklistEnabled = FALSE]

\* The mode flags after info.disableAll()
DisableAllFlags(i) == [i EXCEPT !.whitelistEnabled = TRUE, !.blacklistEnabled = TRUE]

\* The mode flags after info.whitelist(...)
WhitelistFlags(i) == [i EXCEPT !.whitelistEnabled = TRUE, !.blacklistEnabled = FALSE]

\* The mode flags after info.blacklist(...)
BlacklistFlags(i) == [i EXCEPT !.blacklistEnabled = TRUE, !.whitelistEnabled = FALSE]

\* Server.info.enableAll()
EnableAll(n) ==
    /\ n \in Ids
    /\ info' = [info EXCEPT ![n] = EnableAllFlags(@)]
    /\ UNCHANGED <<servers, endpoints, subdomains, statusHandelers, arrays, httpServers,
                   WEBSOCKETS, websockets, upgrades, marks, requests, registered, stderr>>

\* Server.info.disableAll(): both modes on, two new empty arrays.
DisableAll(n) ==
    /\ n \in Ids
    /\ LET pair == FreshPair(n)
           inf == [info EXCEPT ![n] = [DisableAllFlags(@) EXCEPT !.whitelistedIps = pair[1],
                                                                 !.blacklistedIps = pair[2]]]
       IN  /\ info' = inf
           /\ arrays' = [a \in DOMAIN Collect(inf) |-> IF a \in {pair[1], pair[2]} THEN {} ELSE arrays[a]]
    /\ UNCHANGED <<servers, endpoints, subdomains, statusHandelers, httpServers,
                   WEBSOCKETS, websockets, upgrades, marks, requests, registered, stderr>>

\* Server.info.whitelist(...ipAddresses): pushes onto the array info refers to.
Whitelist(n, ipAddresses) ==
    /\ n \in Ids
    /\ info' = [info EXCEPT ![n] = WhitelistFlags(@)]
    /\ arrays' = [arrays EXCEPT ![info[n].whitelistedIps] = @ \cup {NormalizeIp(ip) : ip \in ipAddresses}]
    /\ UNCHANGED <<servers, endpoints, subdomains, statusHandelers, httpServers,
                   WEBSOCKETS, websockets, upgrades, marks, requests, registered, stderr>>

\* Server.info.blacklist(...ipAddresses)
Blacklist(n, ipAddresses) ==
    /\ n \in Ids
    /\ info' = [info EXCEPT ![n] = BlacklistFlags(@)]
    /\ arrays' = [arrays EXCEPT ![info[n].blacklistedIps] = @ \cup {NormalizeIp(ip) : ip \in ipAddresses}]
    /\ UNCHANGED <<servers, endpoints, subdomains, statusHandelers, httpServers,
                   WEBSOCKETS, websockets, upgrades, marks, requests, registered, stderr>>

(***************************************************************************)
(* Construction and the listener's lifecycle.                              *)
(***************************************************************************)
\* new Server(options) without the _SUBDOMAIN flag: a root with its own
\* http.Server, empty tables and a fresh info object.
New(domain, port, flags, rootDirectory) ==
    /\ Len(servers) < MaxServers
    /\ LET self == Len(servers) + 1
           held == UNION {{info[m].whitelistedIps, info[m].blacklistedIps} : m \in DOMAIN info}
           a1 == Min((1..(2 * Len(info) + 2)) \ held)
           a2 == Min((1..(2 * Len(info) + 2)) \ (held \cup {a1}))
       IN  /\ servers' = Append(servers, Constructor(Options(domain, port, flags, rootDirectory, Nobody), self))
           /\ endpoints' = Append(endpoints, EmptyObject)
           /\ subdomains' = Append(subdomains, EmptyObject)
           /\ statusHandelers' = Append(statusHandelers, EmptyObject)
           /\ registered' = Append(registered, EmptyObject)
           /\ info' = Append(info, NewInfo(a1, a2))
           /\ arrays' = [a \in DOMAIN arrays \cup {a1, a2} |-> IF a \in {a1, a2} THEN {} ELSE arrays[a]]
           /\ httpServers' = Put(httpServers, self, [listening |-> FALSE, port |-> 0, upgrade |-> 0])
    /\ UNCHANGED <<WEBSOCKETS, websockets, upgrades, marks, requests, stderr>>

\* Server.open(): this._httpServer.listen(this.port, "0.0.0.0")
Open(n) ==
    /\ n \in Ids
    /\ ~httpServers[servers[n]._httpServer].listening
    /\ httpServers' = [httpServers EXCEPT ![servers[n]._httpServer] =
                           [@ EXCEPT !.listening = TRUE, !.port = servers[n].port]]
    /\ UNCHANGED <<servers, endpoints, subdomains, statusHandelers, info, arrays,
                   WEBSOCKETS, websockets, upgrades, marks, requests, registered, stderr>>

\* Server.close(): this._httpServer.close()
Close(n) ==
    /\ n \in Ids
    /\ httpServers[servers[n]._httpServer].listening
    /\ httpServers' = [httpServers EXCEPT ![servers[n]._httpServer] =
                           [@ EXCEPT !.listening = FALSE, !.port = 0]]
    /\ UNCHANGED <<servers, endpoints, subdomains, statusHandelers, info, arrays,
                   WEBSOCKETS, websockets, upgrades, marks, requests, registered, stderr>>

(***************************************************************************)
(* HTTP requests.  A response (the "result" object) is modelled with the   *)
(* trace of what the dispatcher did for it.                                *)
(***************************************************************************)
\* What is on the disk under the working directory: files, a file whose read
\* fails, directories.  A path that is not listed does not exist.
Disk ==
    [f \in {"./p.html", "./a.xyz", "./bad.txt", "./d", "./d/index.htm",
             "./e", "./e.htm", "./e/index.html", "./f", "./g.html", "./g.html.htm",
             "./pub", "./pub/in.html"} |->
        CASE f \in {"./p.html", "./a.xyz", "./d/index.htm", "./e.htm", "./e/index.html",
                    "./g.html", "./g.html.htm", "./pub/in.html"} -> "file"
          [] f = "./bad.txt" -> "unreadable"
          [] OTHER -> "directory"]

\* fs.existsSync
existsSync(f) == f \in DOMAIN Disk

\* fs.lstatSync(f, {throwIfNoEntry: false})?.isDirectory()
isDirectory(f) == f \in DOMAIN Disk /\ Disk[f] = "directory"

\* Server.defaultIndexes
defaultIndexes == <<"index.html", "index.htm", "index.js", "index.json", "index.php">>

\* The entries of Server.mimeTypes the model's files need; "txt" is the fallback.
mimeTypes == [ext \in {"html", "htm", "txt"} |->
                 IF ext = "txt" THEN "text/plain" ELSE "text/html"]

RECURSIVE lastIndexOfFrom(_, _, _)
lastIndexOfFrom(s, c, i) ==
    IF i = 0 THEN 0
    ELSE IF SubSeq(s, i, i) = c THEN i
    ELSE lastIndexOfFrom(s, c, i - 1)

\* String.prototype.lastIndexOf for one character, 1-based; 0 when absent.
lastIndexOf(s, c) == lastIndexOfFrom(s, c, Len(s))

\* s.match(/\.([^/.]+)$/)[0]: the last "." and what follows it, when that is
\* not empty and holds no "/"; "" when the expression does not match.
ExtensionOf(s) ==
    LET i == lastIndexOf(s, ".")
    IN  IF i = 0 \/ i = Len(s) \/ includes(SubSeq(s, i + 1, Len(s)), "/") THEN ""
        ELSE SubSeq(s, i, Len(s))

\* A new response: nothing written, nothing pending.
NewResult ==
    [trace |-> <<>>, headersSent |-> FALSE, writableEnded |-> FALSE, statusCode |-> 0,
     contentType |-> "", error |-> NoError, rejection |-> NoError,
     pc |-> "done", at |-> Nobody, code |-> 0, ends |-> FALSE, heads |-> FALSE, pathname |-> ""]

Emit(res, op, n, arg) == [res EXCEPT !.trace = Append(@, [op |-> op, server |-> n, arg |-> arg])]

\* Mutant of writeHead: a head is written whether or not one was sent.
writeHeadAgain(res, n, statusCode, type) ==
    [Emit(res, "writeHead", n, toString(statusCode)) EXCEPT
         !.headersSent = TRUE, !.statusCode = statusCode, !.contentType = type]

\* result.writeHead(statusCode, {"Content-Type": type}): the trace gets the
\* head that is written; once the headers were sent the call writes nothing
\* and throws.
writeHead(res, n, statusCode, type) ==
    IF res.headersSent THEN [res EXCEPT !.rejection = "ERR_HTTP_HEADERS_SENT"]
    ELSE [Emit(res, "writeHead", n, toString(statusCode)) EXCEPT
              !.headersSent = TRUE, !.statusCode = statusCode, !.contentType = type]

\* result.end(): the implicit status is 200 when no head was written; on a
\* response that was ended the call does nothing.
end(res, n) ==
    IF res.writableEnded THEN res
    ELSE [Emit(res, "end", n, "") EXCEPT
             !.headersSent = TRUE, !.writableEnded = TRUE,
             !.statusCode = IF res.headersSent THEN @ ELSE 200]

\* result.writeHead(...) followed by result.end(...): the exception of the
\* first leaves the second undone.
Respond(res, n, statusCode, type) ==
    LET head == writeHead(res, n, statusCode, type)
    IN  IF res.headersSent /\ head.rejection # NoError THEN head ELSE end(head, n)

\* An endpoint callback as in the README: writes a 200 head and a body and
\* ends the response.
RunEndpoint(res, n, stage, key) ==
    Respond(Emit(res, stage, n, key), n, 200, "text/plain")

\* What a status callback does with the response: one that answers writes its
\* own page under the dispatched code and ends the response; one writes a
\* head and returns without ending the response; the other only looks at the
\* request.
RunStatusCallback(res, n, callback, statusCode) ==
    IF callback.ends THEN Respond(res, n, statusCode, "text/html")
    ELSE IF callback.heads THEN writeHead(res, n, statusCode, "text/html")
    ELSE res

\* Mutant of DefaultPage: the page is written for logged clients only.
DefaultPageIfLogged(res, n, statusCode, request) ==
    IF decodeURI(request.url).error # NoError
    THEN [res EXCEPT !.rejection = decodeURI(request.url).error]
    ELSE IF ~shouldLogFromRequest(n, request) THEN res
    ELSE LET written == Respond(res, n, statusCode, "text/plain")
         IN  IF written.rejection # NoError THEN [res EXCEPT !.rejection = written.rejection]
             ELSE Emit(written, "console.log", n, toString(statusCode))

\* index.js 297-313: the built-in page, then the log line if the policy says so.
DefaultPage(res, n, statusCode, request) ==
    IF decodeURI(request.url).error # NoError
    THEN [res EXCEPT !.rejection = decodeURI(request.url).error]
    ELSE LET written == Respond(res, n, statusCode, "text/plain")
         IN  IF written.rejection # NoError THEN [res EXCEPT !.rejection = written.rejection]
             ELSE IF shouldLogFromRequest(n, request)
             THEN Emit(written, "console.log", n, toString(statusCode))
             ELSE written

\* index.js 294-313: what follows the status callback.
AfterStatusCallback(res, n, statusCode, request) ==
    IF res.writableEnded THEN res ELSE DefaultPage(res, n, statusCode, request)

\* Server.#throwHttpError(statusCode, request, result), up to its first await:
\* a callback whose constructor is AsyncFunction suspends it (pc = "await"),
\* any other does not; the promise a plain function returns is dropped, and
\* what that function does when its work is over comes later (pc = "handler").
throwHttpError(res, n, statusCode, request) ==
    LET r0 == Emit(res, "throwHttpError", n, toString(statusCode))
    IN  IF In(toString(statusCode), statusHandelers[n])
        THEN LET callback == statusHandelers[n][toString(statusCode)]
                 r1 == Emit(r0, "statusHandler", n, callback.name)
             IN  IF callback.async
                 THEN [r1 EXCEPT !.pc = "await", !.at = n, !.code = statusCode,
                                 !.ends = callback.ends, !.heads = callback.heads]
                 ELSE IF callback.deferred
                 THEN [AfterStatusCallback(r1, n, statusCode, request) EXCEPT
                           !.pc = "handler", !.at = n, !.code = statusCode,
                           !.ends = callback.ends, !.heads = callback.heads]
                 ELSE AfterStatusCallback(RunStatusCallback(r1, n, callback, statusCode),
                                          n, statusCode, request)
        ELSE DefaultPage(r0, n, statusCode, request)

RECURSIVE ProbeExtensions(_, _)
\* index.js 470-476: every default index's extension is tried in turn and
\* appended when pathname + extension exists; the loop has no break.
ProbeExtensions(pathname, i) ==
    IF i > Len(defaultIndexes) THEN pathname
    ELSE LET extension == ExtensionOf(defaultIndexes[i])
         IN  IF ~existsSync(pathname \o extension) THEN ProbeExtensions(pathname, i + 1)
             ELSE ProbeExtensions(pathname \o extension, i + 1)

RECURSIVE ProbeIndexes(_, _)
\* index.js 484-491: the first default index that exists in the directory.
ProbeIndexes(pathname, i) ==
    IF i > Len(defaultIndexes) THEN pathname
    ELSE IF ~existsSync(pathname \o "/" \o defaultIndexes[i]) THEN ProbeIndexes(pathname, i + 1)
    ELSE pathname \o "/" \o defaultIndexes[i]

\* Mutant of ResolvePath: the directory probe runs before the extension probe.
ResolvePathDirectoryFirst(path) ==
    LET p1 == IF startsWith(path, "/") THEN replace(path, "/", "") ELSE path
        decoded == decodeURI(URLpathname("example.com", "/" \o p1))
        p2 == "." \o decoded.value
        p3 == IF isDirectory(p2) THEN ProbeIndexes(p2, 1) ELSE p2
        p4 == IF ExtensionOf(p3) = "" THEN ProbeExtensions(p3, 1) ELSE p3
    IN  [error |-> decoded.error, pathname |-> IF decoded.error = NoError THEN p4 ELSE ""]

\* index.js 464-493: the file sendFile(path) settles on; error when the
\* second decodeURI throws.
ResolvePath(path) ==
    LET p1 == IF startsWith(path, "/") THEN replace(path, "/", "") ELSE path
        decoded == decodeURI(URLpathname("example.com", "/" \o p1))
        p2 == "." \o decoded.value
        p3 == IF ExtensionOf(p2) = "" THEN ProbeExtensions(p2, 1) ELSE p2
        p4 == IF isDirectory(p3) THEN ProbeIndexes(p3, 1) ELSE p3
    IN  [error |-> decoded.error, pathname |-> IF decoded.error = NoError THEN p4 ELSE ""]

\* Server.sendFile(path, result) up to fs.readFile: status is the code the
\* promise resolved with, 0 while the read is pending or after a rejection.
sendFile(res, n, path) ==
    LET r0 == Emit(res, "sendFile", n, path)
        resolved == ResolvePath(path)
    IN  IF res.writableEnded THEN [result |-> r0, status |-> 406]
        ELSE IF resolved.error # NoError
        THEN [result |-> [r0 EXCEPT !.rejection = resolved.error], status |-> 0]
        ELSE IF ~existsSync(resolved.pathname) THEN [result |-> r0, status |-> 404]
        ELSE [result |-> [Emit(r0, "readFile", n, resolved.pathname) EXCEPT
                              !.pc = "readFile", !.at = n, !.pathname = resolved.pathname],
              status |-> 0]

\* index.js 506-511: the Content-Type of a file name.
ContentType(pathname) ==
    LET fileExtension == at(split(pathname, "."), -1)
    IN  IF fileExtension \in DOMAIN mimeTypes THEN mimeTypes[fileExtension]
        ELSE IF In(fileExtension, mimeTypes) THEN "[inherited]"
        ELSE mimeTypes["txt"]

\* An exception thrown out of the "request" listener.
Throw(res, error) == [res EXCEPT !.error = error]

\* Mutant of ExactApplies: the method filter is not consulted.
ExactAppliesAnyMethod(table, requestedPath, method) ==
    In(requestedPath, table) /\ requestedPath \in DOMAIN table

\* index.js 245: the exact-path endpoint of the table applies.
ExactApplies(table, requestedPath, method) ==
    /\ In(requestedPath, table)
    /\ requestedPath \in DOMAIN table
    /\ \/ table[requestedPath].methods = null
       \/ \E i \in 1..Len(table[requestedPath].methods.list) :
              table[requestedPath].methods.list[i] = method

\* index.js 254-256: the path handed to sendFile.
FilePath(n, requestedPath) ==
    LET root == servers[n].customData.rootDirectory
    IN  IF root # ""
        THEN (IF endsWith(root, "/") THEN SubSeq(root, 1, Len(root) - 1) ELSE root) \o requestedPath
        ELSE requestedPath

\* index.js 243-266: the fallback chain of server n over an endpoint table.
ServeWith(table, res, n, request, requestedPath) ==
    LET r0 == Emit(res, "serve", n, requestedPath)
    IN  IF ExactApplies(table, requestedPath, request.method)
        THEN RunEndpoint(r0, n, "endpoint", requestedPath)
        ELSE IF In("*", table)
        THEN RunEndpoint(r0, n, "wildcard", "*")
        ELSE IF FILESYSTEM \in servers[n].flags
        THEN LET sent == sendFile(r0, n, FilePath(n, requestedPath))
             IN  IF sent.status # 0 THEN throwHttpError(sent.result, n, sent.status, request)
                 ELSE sent.result
        ELSE throwHttpError(r0, n, 404, request)

\* Mutant of Serve: the wildcard endpoint is looked up before the exact path.
ServeWildcardFirst(res, n, request, requestedPath) ==
    IF In("*", endpoints[n])
    THEN RunEndpoint(Emit(res, "serve", n, requestedPath), n, "wildcard", "*")
    ELSE ServeWith(endpoints[n], res, n, request, requestedPath)

\* The fallback chain of server n over its own endpoints.
Serve(res, n, request, requestedPath) == ServeWith(endpoints[n], res, n, request, requestedPath)

\* index.js 269: the host handed to the subdomain.
NewDomain(domain, own) == replace(domain, "." \o own, "")

RECURSIVE processRequest(_, _, _, _)
\* Server.#processRequest(request, result, domain) of server n
processRequest(res, n, request, domainArg) ==
    LET domain0 == IF domainArg = undefined THEN request.headers.host ELSE domainArg
    IN  IF domain0 = undefined THEN Throw(res, "TypeError")
        ELSE
        LET domain == replace(domain0, ":" \o toString(servers[n].port), "")
            subdomain == at(split(domain, "."), -2)
            decoded == decodeURI(URLpathname(request.headers.host, request.url))
        IN  IF decoded.error # NoError THEN Throw(res, decoded.error)
            ELSE IF domain = servers[n].domain \/ ~includes(domain, ".")
            THEN Serve(res, n, request, decoded.value)
            ELSE IF In(subdomain, subdomains[n])
            THEN IF subdomain \in DOMAIN subdomains[n]
                 THEN processRequest(res, subdomains[n][subdomain], request,
                                     NewDomain(domain, servers[n].domain))
                 ELSE Throw(res, "TypeError")
            ELSE throwHttpError(res, n, 404, request)

\* Mutant of Accept: a request that arrives while a response waits for a
\* status callback or a file is served on that response.
AcceptShared(l, request, limit) ==
    /\ l \in DOMAIN httpServers
    /\ httpServers[l].listening
    /\ Len(requests) < limit
    /\ LET waiting == {i \in DOMAIN requests : requests[i].result.pc # "done"}
           result == IF waiting = {} THEN NewResult
                     ELSE requests[CHOOSE i \in waiting : TRUE].result
       IN  requests' = Append(requests, [request |-> request, listener |-> l,
                                        result |-> processRequest(result, l, request, undefined)])
    /\ UNCHANGED <<servers, endpoints, subdomains, statusHandelers, info, arrays, httpServers,
                   WEBSOCKETS, websockets, upgrades, marks, registered, stderr>>

\* The "request" event of listener l: the callback given to http.createServer
\* by root l, with the microtasks it queues; at most limit requests arrive in
\* one behaviour.
Accept(l, request, limit) ==
    /\ l \in DOMAIN httpServers
    /\ httpServers[l].listening
    /\ Len(requests) < limit
    /\ requests' = Append(requests, [request |-> request, listener |-> l,
                                     result |-> processRequest(NewResult, l, request, undefined)])
    /\ UNCHANGED <<servers, endpoints, subdomains, statusHandelers, info, arrays, httpServers,
                   WEBSOCKETS, websockets, upgrades, marks, registered, stderr>>

\* The "request" event of listener l.
Request(l, request) == Accept(l, request, MaxRequests)

\* Mutant of readFileCallback: whatever was read is sent with status 200.
readFileCallbackAnything(pending, request) ==
    LET r == [pending EXCEPT !.pc = "done"]
        n == r.at
    IN  end(Emit(writeHead(r, n, 200, ContentType(r.pathname)), "write", n, r.pathname), n)

\* index.js 500-518 and 260-262: what the callback of fs.readFile and the
\* continuation of the promise do with a response whose read was pending.
readFileCallback(pending, request) ==
    LET r == [pending EXCEPT !.pc = "done"]
        n == r.at
    IN  IF Disk[r.pathname] # "file"
        THEN throwHttpError(r, n, 500, request)
        ELSE LET head == writeHead(r, n, 200, ContentType(r.pathname))
             IN  IF r.headersSent /\ head.rejection # NoError THEN head
                 ELSE end(Emit(head, "write", n, r.pathname), n)

\* index.js 500-518 and 260-262: the callback of fs.readFile, then the
\* continuation of the promise.
ReadFileCallback(i) ==
    /\ i \in DOMAIN requests
    /\ requests[i].result.pc = "readFile"
    /\ requests' = [requests EXCEPT ![i].result =
                        readFileCallback(requests[i].result, requests[i].request)]
    /\ UNCHANGED <<servers, endpoints, subdomains, statusHandelers, info, arrays, httpServers,
                   WEBSOCKETS, websockets, upgrades, marks, registered, stderr>>

\* index.js 289-313: what #throwHttpError does with a response when the
\* promise of the async status callback it awaited resolves.
AfterAwait(pending, request) ==
    LET r == [pending EXCEPT !.pc = "done"]
        n == r.at
        callback == [ends |-> r.ends, heads |-> r.heads]
    IN  AfterStatusCallback(RunStatusCallback(r, n, callback, r.code), n, r.code, request)

\* index.js 289-313: the promise of an async status callback resolves and
\* #throwHttpError resumes.
StatusCallbackResolves(i) ==
    /\ i \in DOMAIN requests
    /\ requests[i].result.pc = "await"
    /\ requests' = [requests EXCEPT ![i].result =
                        AfterAwait(requests[i].result, requests[i].request)]
    /\ UNCHANGED <<servers, endpoints, subdomains, statusHandelers, info, arrays, httpServers,
                   WEBSOCKETS, websockets, upgrades, marks, registered, stderr>>

\* index.js 291: the work of a plain status callback that returned a promise
\* is over, and the callback answers (or not) on a response the dispatcher
\* has not waited with.
StatusCallbackSettles(i) ==
    /\ i \in DOMAIN requests
    /\ requests[i].result.pc = "handler"
    /\ LET r == [requests[i].result EXCEPT !.pc = "done"]
       IN  requests' = [requests EXCEPT ![i].result =
               RunStatusCallback(r, r.at, [ends |-> r.ends, heads |-> r.heads], r.code)]
    /\ UNCHANGED <<servers, endpoints, subdomains, statusHandelers, info, arrays, httpServers,
                   WEBSOCKETS, websockets, upgrades, marks, registered, stderr>>

(***************************************************************************)
(* WebSockets: lib/websocket.js.                                           *)
(***************************************************************************)
\* Upgrade requests that arrive on the listeners in one behaviour.
MaxUpgrades == 1

\* Mutant of UpgradeListenersAfter: every registration adds a listener.
UpgradeListenersAlways(count) == count + 1

\* lib/websocket.js 48-63: the "upgrade" listeners of the http.Server after a
\* Websocket was registered on it: one is added when there is none.
UpgradeListenersAfter(count) == IF count = 0 THEN 1 ELSE count

\* new Websocket(server, path), as Server.websocket(path) of server n calls it.
\* A path that is already in WEBSOCKETS ends the constructor early.
Websocket(n, path) ==
    /\ n \in Ids
    /\ Len(websockets) < MaxWebsockets
    /\ LET self == Len(websockets) + 1
           l == servers[n]._httpServer
           taken == In(path, WEBSOCKETS)
           wired == ~taken /\ WS_INSTALLED
       IN  /\ websockets' = Append(websockets,
                   [endpoint |-> path, parentServer |-> n, eventListers |-> <<>>, connected |-> wired])
           /\ WEBSOCKETS' = IF taken THEN WEBSOCKETS ELSE Put(WEBSOCKETS, path, self)
           /\ httpServers' = IF wired
                             THEN [httpServers EXCEPT ![l].upgrade = UpgradeListenersAfter(@)]
                             ELSE httpServers
    /\ UNCHANGED <<servers, endpoints, subdomains, statusHandelers, info, arrays,
                   upgrades, marks, requests, registered, stderr>>

\* websocket.listen.connection / error / message / close (callback): the
\* callback is marked with the current length of the list and appended.
Listen(w, eventName, callback) ==
    /\ w \in DOMAIN websockets
    /\ marks' = Put(marks, callback, Len(websockets[w].eventListers))
    /\ websockets' = [websockets EXCEPT ![w].eventListers =
                          Append(@, [eventName |-> eventName, callback |-> callback])]
    /\ UNCHANGED <<servers, endpoints, subdomains, statusHandelers, info, arrays, httpServers,
                   WEBSOCKETS, upgrades, requests, registered, stderr>>

\* lib/websocket.js 136-144: the list without its first entry of kind
\* eventType whose callback carries the id targetId; the list itself when
\* there is none.
Spliced(list, eventType, targetId) ==
    LET hits == {i \in DOMAIN list :
                    list[i].eventName = eventType /\ marks[list[i].callback] = targetId}
    IN  IF hits = {} THEN list
        ELSE SubSeq(list, 1, Min(hits) - 1) \o SubSeq(list, Min(hits) + 1, Len(list))

\* websocket.listen.removeListener(eventType, callback) of websocket w.  A
\* callback that was never given to listen.* carries no id, and reading it
\* throws before anything changes.
RemoveListener(w, eventType, callback) ==
    /\ w \in DOMAIN websockets
    /\ callback \in DOMAIN marks
    /\ websockets' = [websockets EXCEPT ![w].eventListers =
                          Spliced(@, eventType, marks[callback])]
    /\ UNCHANGED <<servers, endpoints, subdomains, statusHandelers, info, arrays, httpServers,
                   WEBSOCKETS, upgrades, marks, requests, registered, stderr>>

\* What the listeners of the model do when they are called: "once" removes
\* itself and "drop" removes c1, both with listen.removeListener for the
\* kind of event they were called for; every other listener leaves the
\* registration alone.
Removes == [callback \in {"once", "drop"} |-> IF callback = "once" THEN "once" ELSE "c1"]

RECURSIVE DispatchFrom(_, _, _, _, _)
\* lib/websocket.js 165-168: the loop over this.#eventListers from index i
\* on, the array being the one the listeners splice.  removeListener for a
\* callback that was never registered throws out of the listener and the loop.
DispatchFrom(list, i, eventName, invoked, w) ==
    IF i > Len(list) THEN [list |-> list, invoked |-> invoked, error |-> NoError]
    ELSE IF list[i].eventName # eventName THEN DispatchFrom(list, i + 1, eventName, invoked, w)
    ELSE LET callback == list[i].callback
             called == Append(invoked, [websocket |-> w, eventName |-> eventName, callback |-> callback])
         IN  IF callback \notin DOMAIN Removes
             THEN DispatchFrom(list, i + 1, eventName, called, w)
             ELSE IF Removes[callback] \notin DOMAIN marks
             THEN [list |-> list, invoked |-> called, error |-> "TypeError"]
             ELSE DispatchFrom(Spliced(list, eventName, marks[Removes[callback]]),
                               i + 1, eventName, called, w)

\* lib/websocket.js 165-168: the fan-out of one event on websocket w.
Dispatch(w, eventName) == DispatchFrom(websockets[w].eventListers, 1, eventName, <<>>, w)

\* Websocket.#triggerEventListener(eventName, request, ...data) of websocket
\* w.  The module has no binding for MESSAGES, so building the log line
\* throws a ReferenceError before any listener is called.
triggerEventListener(up, w, eventName, request) ==
    IF shouldLogFromRequest(websockets[w].parentServer, request)
    THEN [up EXCEPT !.error = "ReferenceError"]
    ELSE [up EXCEPT !.invoked = @ \o Dispatch(w, eventName).invoked,
                    !.error = Dispatch(w, eventName).error]

\* this.#eventListers of websocket w after #triggerEventListener.
eventListersAfter(w, eventName, request) ==
    IF shouldLogFromRequest(websockets[w].parentServer, request)
    THEN websockets[w].eventListers
    ELSE Dispatch(w, eventName).list

\* lib/websocket.js 65-87: the "connection" listener of websocket w's
\* WebSocketServer: the fan-out, then the socket's own subscriptions.
OnConnection(up, w, request) ==
    LET fanned == triggerEventListener(up, w, "connection", request)
    IN  IF fanned.error # NoError THEN fanned
        ELSE [fanned EXCEPT !.subscribed = TRUE]

\* lib/websocket.js 49-62: the "upgrade" listener.
UpgradeHandler(up, request) ==
    IF request.headers.origin = undefined THEN [up EXCEPT !.error = "TypeError"]
    ELSE LET requestedPath == URLpathname(request.headers.origin, request.url)
         IN  IF ~In(requestedPath, WEBSOCKETS) THEN up
             ELSE IF requestedPath \notin DOMAIN WEBSOCKETS THEN [up EXCEPT !.error = "TypeError"]
             ELSE LET w == WEBSOCKETS[requestedPath]
                      shaken == [up EXCEPT !.websocket = w, !.state = "OPEN"]
                  IN  IF websockets[w].connected THEN OnConnection(shaken, w, request)
                      ELSE shaken

NewUpgrade(l, request) ==
    [listener |-> l, request |-> request, websocket |-> Nobody, state |-> "",
     error |-> NoError, invoked |-> <<>>, subscribed |-> FALSE, handled |-> FALSE,
     events |-> <<>>]

\* The "upgrade" event of listener l.  Without an "upgrade" listener nothing
\* of this library runs for the request.
Upgrade(l, request) ==
    /\ l \in DOMAIN httpServers
    /\ httpServers[l].listening
    /\ Len(upgrades) < MaxUpgrades
    /\ LET up == IF httpServers[l].upgrade = 0 THEN NewUpgrade(l, request)
                 ELSE UpgradeHandler([NewUpgrade(l, request) EXCEPT !.handled = TRUE], request)
           w == up.websocket
       IN  /\ upgrades' = Append(upgrades, up)
           /\ websockets' = IF w # Nobody /\ websockets[w].connected
                            THEN [websockets EXCEPT ![w].eventListers =
                                      eventListersAfter(w, "connection", request)]
                            ELSE websockets
    /\ UNCHANGED <<servers, endpoints, subdomains, statusHandelers, info, arrays, httpServers,
                   WEBSOCKETS, marks, requests, registered, stderr>>

\* Events that one connection's socket emits in one behaviour.
MaxEvents == 2

\* lib/websocket.js 69-86: the socket of connection u emits "error",
\* "message" or "close"; the subscription made by the connection listener
\* fans it out, and the one for "close" then removes the socket's listeners.
SocketEvent(u, eventName) ==
    /\ u \in DOMAIN upgrades
    /\ upgrades[u].subscribed
    /\ upgrades[u].state = "OPEN"
    /\ upgrades[u].error = NoError
    /\ Len(upgrades[u].events) < MaxEvents
    /\ LET up == [upgrades[u] EXCEPT !.events = Append(@, eventName),
                                     !.state = IF eventName = "close" THEN "CLOSED" ELSE @]
           fanned == triggerEventListener(up, up.websocket, eventName, up.request)
       IN  /\ upgrades' = [upgrades EXCEPT ![u] =
                  IF eventName = "close" /\ fanned.error = NoError
                  THEN [fanned EXCEPT !.subscribed = FALSE]
                  ELSE fanned]
           /\ websockets' = [websockets EXCEPT ![up.websocket].eventListers =
                                 eventListersAfter(up.websocket, eventName, up.request)]
    /\ UNCHANGED <<servers, endpoints, subdomains, statusHandelers, info, arrays, httpServers,
                   WEBSOCKETS, marks, requests, registered, stderr>>

(***************************************************************************)
(* Specifications.  Init is the module before any Server is constructed;   *)
(* each specification lets the application and the clients make the calls  *)
(* and send the requests of one concern.                                   *)
(***************************************************************************)
Init ==
    /\ servers = <<>>
    /\ endpoints = <<>>
    /\ subdomains = <<>>
    /\ statusHandelers = <<>>
    /\ info = <<>>
    /\ arrays = [a \in {} |-> {}]
    /\ httpServers = EmptyObject
    /\ WEBSOCKETS = EmptyObject
    /\ websockets = <<>>
    /\ upgrades = <<>>
    /\ marks = EmptyObject
    /\ requests = <<>>
    /\ registered = <<>>
    /\ stderr = NoLine

HttpRequest(host, method, url, remoteAddress) ==
    [headers |-> [host |-> host, origin |-> undefined], method |-> method, url |-> url,
     remoteAddress |-> remoteAddress]

UpgradeRequest(host, origin, url, remoteAddress) ==
    [headers |-> [host |-> host, origin |-> origin], method |-> "GET", url |-> url,
     remoteAddress |-> remoteAddress]

\* Status callbacks of the model: plain or async, answering or not.
StatusCallbacks ==
    {[name |-> "page", async |-> FALSE, ends |-> TRUE, deferred |-> FALSE, heads |-> FALSE],
     [name |-> "note", async |-> FALSE, ends |-> FALSE, deferred |-> FALSE, heads |-> FALSE],
     [name |-> "later", async |-> TRUE, ends |-> TRUE, deferred |-> FALSE, heads |-> FALSE]}

\* The fallback chain inside a node: endpoint(), status() and requests on one
\* root, with or without the FILESYSTEM flag.
Next ==
    \/ \E flags \in {{}, {FILESYSTEM}} :
           Len(servers) = 0 /\ New("lo", 8080, flags, "")
    \/ \E n \in Ids, path \in {"/p", "*", ""}, callback \in {"h1", "h2"},
          methods \in {MethodsOmitted, MethodsString("get"), MethodsArray(<<"POST">>)} :
           Endpoint(n, path, callback, methods)
    \/ \E n \in Ids, code \in {StatusCode(404), StatusText(404)}, callback \in StatusCallbacks :
           Status(n, code, callback)
    \/ \E n \in Ids : Open(n)
    \/ \E l \in DOMAIN httpServers, method \in {"GET", "POST"},
          url \in {"/p", "/%70", "/q", "/bad.txt"} :
           Request(l, HttpRequest("lo:8080", method, url, "10.0.0.1"))
    \/ \E i \in DOMAIN requests : ReadFileCallback(i)
    \/ \E i \in DOMAIN requests : StatusCallbackResolves(i)

Spec == Init /\ [][Next]_vars

\* Host routing: subdomain() and removeAllSubdomains() at any depth under
\* one root, and requests with every kind of Host header.
Hosts ==
    {undefined, "lo:8080", "ws.lo:8080", "lo2.lo:8080", "ws.lo2.lo:8080", "lo2.ws.lo:8080",
     "zz.lo:8080", "constructor.lo:8080"}

NextHosts ==
    \/ Len(servers) = 0 /\ New("lo", 8080, {}, "")
    \/ \E n \in Ids, domain \in {"ws", "lo2", "", "constructor"} : Subdomain(n, domain, {}, "")
    \/ \E n \in Ids : RemoveAllSubdomains(n)
    \/ \E n \in Ids : Open(n)
    \/ \E l \in DOMAIN httpServers, host \in Hosts, url \in {"/p", "/%"} :
           Request(l, HttpRequest(host, "GET", url, "10.0.0.1"))

SpecHosts == Init /\ [][NextHosts]_vars

\* Listeners registered on one Websocket handle.
MaxListeners == 1

\* The upgrade multiplexer under one listener: a root and its subdomains,
\* websocket() and listen.connection() on any of them, the access policy
\* that silences the log, and upgrade requests.
NextWebsocket ==
    \/ Len(servers) = 0 /\ New("lo", 8080, {}, "")
    \/ \E n \in Ids : Subdomain(n, "ws", {}, "")
    \/ \E n \in Ids, path \in {"/chat", "/x"} : Websocket(n, path)
    \/ \E w \in DOMAIN websockets :
           /\ Len(websockets[w].eventListers) < MaxListeners
           /\ Listen(w, "connection", "c1")
    \/ \E n \in Ids : DisableAll(n)
    \/ \E n \in Ids : Open(n)
    \/ \E l \in DOMAIN httpServers, url \in {"/chat", "/none"} :
           Upgrade(l, UpgradeRequest("lo:8080", "http://lo:8080", url, "10.0.0.1"))

SpecWebsocket == Init /\ [][NextWebsocket]_vars

\* Two roots in one process, each with its own listener, sharing the
\* module's WEBSOCKETS table.
NextRoots ==
    \/ \E port \in {8080, 8081} :
           /\ \A n \in Ids : servers[n].port # port
           /\ New("lo", port, {}, "")
    \/ \E n \in Ids, path \in {"/chat", "/x"} : Websocket(n, path)
    \/ \E n \in Ids : Open(n)
    \/ \E n \in Ids : Close(n)
    \/ \E l \in DOMAIN httpServers, url \in {"/chat", "/x"} :
           Upgrade(l, UpgradeRequest("lo:8080", "http://lo:8080", url, "10.0.0.1"))

SpecRoots == Init /\ [][NextRoots]_vars

\* The access policy of a root and of a subdomain.
NextInfo ==
    \/ Len(servers) = 0 /\ New("lo", 8080, {}, "")
    \/ \E n \in Ids : Len(servers) < 2 /\ Subdomain(n, "ws", {}, "")
    \/ \E n \in Ids : EnableAll(n)
    \/ \E n \in Ids : DisableAll(n)
    \/ \E n \in Ids, ips \in {{}, {"local"}, {"10.0.0.1"}} : Whitelist(n, ips)
    \/ \E n \in Ids, ips \in {{}, {"local"}, {"10.0.0.1"}} : Blacklist(n, ips)

SpecInfo == Init /\ [][NextInfo]_vars

(***************************************************************************)
(* Properties.                                                             *)
(***************************************************************************)
\* The request that arrives in a step, and the upgrade request.
Arrives == Len(requests') = Len(requests) + 1
Arrived == requests'[Len(requests')]
UpgradeArrives == Len(upgrades') = Len(upgrades) + 1
UpgradeArrived == upgrades'[Len(upgrades')]

\* The stages of the fallback chain a response went through, in order.
Stages(res) ==
    SelectSeq(res.trace, LAMBDA e : e.op \in {"endpoint", "wildcard", "sendFile", "throwHttpError"})

\* The callbacks and file reads that ran for a response.
Ran(res) ==
    SelectSeq(res.trace, LAMBDA e : e.op \in {"endpoint", "wildcard", "sendFile", "readFile"})

\* The node that ran its fallback chain for a response; Nobody when none did.
ServedBy(res) ==
    IF res.trace # <<>> /\ res.trace[1].op = "serve" THEN res.trace[1].server ELSE Nobody

RECURSIVE Under(_, _)
\* The servers reached from n through the subdomain tables, at most k deep.
Under(n, k) ==
    IF k = 0 THEN {n}
    ELSE {n} \cup UNION {Under(subdomains[n][d], k - 1) : d \in DOMAIN subdomains[n]}

\* C1: a request whose Host header is the full domain of a node registered
\* (at any depth) under the root of the listener is served by the fallback
\* chain of that node, and one whose Host is the root's D:P by the root's.
\* Stated for requests with a well-formed path.
C1_HostRouting ==
    [][Arrives /\ decodeURI(Arrived.request.url).error = NoError =>
          \A c \in Under(Arrived.listener, Len(servers)) :
              Arrived.request.headers.host = fullDomain(c) => ServedBy(Arrived.result) = c]_vars

\* C2: the node that serves a request chooses exactly one stage, in the
\* order exact endpoint accepting the method, wildcard, filesystem, 404; only
\* a filesystem outcome other than 200 is followed by status dispatch.
C2_FallbackOrder ==
    /\ [][Arrives /\ ServedBy(Arrived.result) # Nobody =>
             LET n == ServedBy(Arrived.result)
                 path == Arrived.result.trace[1].arg
                 table == endpoints[n]
                 exact == /\ path \in DOMAIN table
                          /\ \/ table[path].methods.type = "null"
                             \/ Arrived.request.method \in
                                    {table[path].methods.list[i] : i \in 1..Len(table[path].methods.list)}
                 first == Stages(Arrived.result)[1]
             IN  /\ first.server = n
                 /\ first.op = IF exact THEN "endpoint"
                               ELSE IF "*" \in DOMAIN table THEN "wildcard"
                               ELSE IF FILESYSTEM \in servers[n].flags THEN "sendFile"
                               ELSE "throwHttpError"
                 /\ first.op = "throwHttpError" => first.arg = "404"]_vars
    /\ [](\A i \in DOMAIN requests :
             LET res == requests[i].result
                 st == Stages(res)
             IN  ServedBy(res) # Nobody =>
                   \/ Len(st) = 1 /\ (st[1].op = "sendFile" /\ res.pc = "done" => res.statusCode = 200)
                   \/ /\ Len(st) = 2
                      /\ st[1].op = "sendFile"
                      /\ st[2].op = "throwHttpError"
                      /\ st[2].arg # "200")

\* C2 witness: on a FILESYSTEM server a request was answered by the wildcard
\* endpoint alone although an endpoint is registered at its path.
C2_Witness ==
    \E i \in DOMAIN requests :
        LET res == requests[i].result
            n == ServedBy(res)
        IN  /\ n # Nobody
            /\ FILESYSTEM \in servers[n].flags
            /\ res.trace[1].arg \in DOMAIN endpoints[n]
            /\ Len(Stages(res)) = 1
            /\ Stages(res)[1].op = "wildcard"
            /\ res.statusCode = 200

\* C3: every request ends with a response that carries a status, and no
\* error is thrown out of the "request" listener.
C3_AlwaysAnswered ==
    \A i \in DOMAIN requests :
        /\ requests[i].result.error = NoError
        /\ requests[i].result.rejection = NoError
        /\ requests[i].result.pc = "done" => requests[i].result.statusCode # 0

\* C4: a host with a dot that is not the root's own domain and whose
\* second-to-last label is not in the root's subdomain table is answered 404
\* by the root's status dispatch, and no callback or file read runs.
\* Stated for requests with a well-formed path.
C4_UnknownSubdomain ==
    [][Arrives /\ Arrived.request.headers.host # undefined
               /\ decodeURI(Arrived.request.url).error = NoError =>
          LET n == Arrived.listener
              domain == replace(Arrived.request.headers.host, ":" \o toString(servers[n].port), "")
              label == at(split(domain, "."), -2)
              res == Arrived.result
          IN  includes(domain, ".") /\ domain # servers[n].domain /\ label \notin DOMAIN subdomains[n]
              => /\ res.error = NoError
                 /\ res.statusCode = 404
                 /\ Stages(res) = <<[op |-> "throwHttpError", server |-> n, arg |-> "404"]>>
                 /\ Ran(res) = <<>>]_vars

\* C5: an endpoint registered for a method set is not invoked for a request
\* to its path with another method, and the response is the one the node
\* gives when no endpoint is registered at that path.
C5_MethodFilter ==
    [][Arrives /\ ServedBy(Arrived.result) # Nobody =>
          LET n == ServedBy(Arrived.result)
              path == Arrived.result.trace[1].arg
              table == endpoints[n]
              without == [q \in DOMAIN table \ {path} |-> table[q]]
          IN  (/\ path \in DOMAIN table
               /\ table[path].methods.type = "array"
               /\ \A i \in 1..Len(table[path].methods.list) :
                      table[path].methods.list[i] # Arrived.request.method)
              => /\ \A k \in DOMAIN Arrived.result.trace : Arrived.result.trace[k].op # "endpoint"
                 /\ Arrived.result = ServeWith(without, NewResult, n, Arrived.request, path)]_vars

\* C5 witness: a POST to a path whose endpoint is registered for GET only
\* was answered without the endpoint.
C5_Witness ==
    \E i \in DOMAIN requests :
        LET res == requests[i].result
            n == ServedBy(res)
        IN  /\ n # Nobody
            /\ requests[i].request.method = "POST"
            /\ res.trace[1].arg \in DOMAIN endpoints[n]
            /\ endpoints[n][res.trace[1].arg].methods = MethodsArray(<<"GET">>)
            /\ \A k \in DOMAIN res.trace : res.trace[k].op # "endpoint"
            /\ res.statusCode # 0

\* C6: every path of a node maps to the callback and method set of its
\* first successful registration; a later endpoint() for the path changes
\* nothing.
C6_EndpointUniqueness == endpoints = registered

\* C6 witness: endpoint() was rejected for a path that is registered.
C6_Witness ==
    \E n \in Ids :
        /\ "/p" \in DOMAIN endpoints[n]
        /\ stderr = [server |-> n, line |-> "Cannot overwrite " \o Origin(n) \o "/p"]

\* C7: every listener has at most one "upgrade" subscription.
C7_OneUpgradeListener == \A l \in DOMAIN httpServers : httpServers[l].upgrade <= 1

\* C7 witness: a root and a subdomain both registered a path under one
\* listener, which has one subscription.
C7_Witness ==
    \E v, w \in DOMAIN websockets :
        /\ websockets[v].connected /\ websockets[w].connected
        /\ websockets[v].parentServer # websockets[w].parentServer
        /\ servers[websockets[v].parentServer]._httpServer = servers[websockets[w].parentServer]._httpServer
        /\ httpServers[servers[websockets[v].parentServer]._httpServer].upgrade = 1

\* C8: once websocket(p) was called on a node, the node's listener has an
\* upgrade subscription.
C8_UpgradeInstalled ==
    \A w \in DOMAIN websockets :
        httpServers[servers[websockets[w].parentServer]._httpServer].upgrade >= 1

\* C9: after websocket(p) was called more than once, an upgrade for p
\* reaches the connection listeners of the first handle, in order, and no
\* listener of a later handle.
C9_FirstRegistrationKept ==
    [][UpgradeArrives /\ UpgradeArrived.handled =>
          LET p == UpgradeArrived.request.url
              handles == {w \in DOMAIN websockets : websockets[w].endpoint = p}
          IN  Cardinality(handles) > 1 =>
                  LET first == Min(handles)
                      L == SelectSeq(websockets[first].eventListers,
                                     LAMBDA e : e.eventName = "connection")
                  IN  /\ UpgradeArrived.websocket = first
                      /\ UpgradeArrived.invoked =
                             [i \in 1..Len(L) |-> [websocket |-> first, eventName |-> "connection",
                                                   callback |-> L[i].callback]]]_vars

\* C10: whitelist mode and blacklist mode are never both enabled.
C10_PolicyExclusive ==
    \A n \in Ids : ~(info[n].whitelistEnabled /\ info[n].blacklistEnabled)

\* The access policy a server observes: its mode flags and the members of
\* the arrays its info object refers to.
Policy(n) ==
    [whitelistEnabled |-> info[n].whitelistEnabled,
     blacklistEnabled |-> info[n].blacklistEnabled,
     whitelistedIps   |-> arrays[info[n].whitelistedIps],
     blacklistedIps   |-> arrays[info[n].blacklistedIps]]

\* C11: a whitelist, blacklist, enableAll or disableAll call on one node
\* changes the mode flags and IP lists of that node only: the policy of a
\* subdomain is a copy, so no call changes the policy of two nodes.
C11_PolicySnapshot ==
    [][Len(servers') = Len(servers) =>
          Cardinality({n \in Ids : Policy(n)' # Policy(n)}) <= 1]_vars

\* Status callbacks that complete asynchronously: an async function that
\* leaves the response open, and a plain function that returns a promise and
\* answers when it settles.
AsynchronousCallbacks ==
    {[name |-> "wait", async |-> TRUE, ends |-> FALSE, deferred |-> FALSE, heads |-> FALSE],
     [name |-> "promise", async |-> FALSE, ends |-> TRUE, deferred |-> TRUE, heads |-> FALSE]}

\* Status dispatch on one root: handlers of every kind for 404 and 500,
\* requests that end in a 404 or in a failed file read.
NextStatus ==
    \/ \E flags \in {{}, {FILESYSTEM}} :
           Len(servers) = 0 /\ New("lo", 8080, flags, "")
    \/ \E n \in Ids, code \in {StatusCode(404), StatusCode(500)},
          callback \in StatusCallbacks \cup AsynchronousCallbacks :
           Status(n, code, callback)
    \/ \E n \in Ids : Open(n)
    \/ \E l \in DOMAIN httpServers, url \in {"/q", "/bad.txt"} :
           Request(l, HttpRequest("lo:8080", "GET", url, "10.0.0.1"))
    \/ \E i \in DOMAIN requests : ReadFileCallback(i)
    \/ \E i \in DOMAIN requests : StatusCallbackResolves(i)
    \/ \E i \in DOMAIN requests : StatusCallbackSettles(i)

SpecStatus == Init /\ [][NextStatus]_vars

\* The events of one kind in the trace of a response.
Events(res, op) == SelectSeq(res.trace, LAMBDA e : e.op = op)

\* C12: while a registered status handler was invoked and has not completed
\* the dispatcher has written no head; when the handler finalized the
\* response the only head written is the handler's.
C12_DispatchWaits ==
    \A i \in DOMAIN requests :
        LET res == requests[i].result
            handled == Events(res, "statusHandler")
        IN  /\ res.pc \in {"await", "handler"} => Events(res, "writeHead") = <<>>
            /\ (/\ res.pc = "done"
                /\ handled # <<>>
                /\ \E c \in StatusCallbacks \cup AsynchronousCallbacks :
                       c.name = handled[1].arg /\ c.ends)
               => Len(Events(res, "writeHead")) = 1 /\ res.contentType = "text/html"

\* C13: open() and close() change the shared listener only when called on
\* the root: a listener that listens does so on the port of its root, where
\* the root's open() put it.
C13_LifecycleRootOnly ==
    \A l \in DOMAIN httpServers :
        httpServers[l].listening => httpServers[l].port = servers[l].port

RECURSIVE Lineage(_)
\* A node, its parent, the parent's parent, ... up to the root.
Lineage(n) ==
    IF servers[n].parentServer = Nobody THEN <<n>>
    ELSE <<n>> \o Lineage(servers[n].parentServer)

\* C14: fullDomain of a node is the labels from the node up to the root's
\* domain joined with ".", then ":" and the port of the root, whatever the
\* node's own port field holds; fullDomain of the root is "D:P".
C14_FullDomain ==
    \A n \in Ids :
        LET line == Lineage(n)
            root == line[Len(line)]
        IN  fullDomain(n) = join([i \in 1..Len(line) |-> servers[line[i]].domain], ".")
                                \o ":" \o toString(servers[root].port)

\* C14 witness: a node two levels under the root, with a port field that is
\* not the root's.
C14_Witness ==
    \E n \in Ids :
        /\ Len(Lineage(n)) = 3
        /\ servers[n].port # servers[Lineage(n)[3]].port
        /\ fullDomain(n) = "ws.lo2.lo:8080"

\* The filesystem stage of one FILESYSTEM root: requests for files, for
\* paths that need probing, for a file whose read fails and for nothing.
NextFiles ==
    \/ Len(servers) = 0 /\ New("lo", 8080, {FILESYSTEM}, "")
    \/ \E n \in Ids, code \in {StatusCode(404), StatusCode(500)}, callback \in StatusCallbacks :
           Status(n, code, callback)
    \/ \E n \in Ids : Open(n)
    \/ \E l \in DOMAIN httpServers,
          url \in {"/p.html", "/p", "/a.xyz", "/d", "/e", "/f", "/q", "/bad.txt", "/%25"} :
           Request(l, HttpRequest("lo:8080", "GET", url, "10.0.0.1"))
    \/ \E i \in DOMAIN requests : ReadFileCallback(i)
    \/ \E i \in DOMAIN requests : StatusCallbackResolves(i)

SpecFiles == Init /\ [][NextFiles]_vars

\* The requests the filesystem stage of a node took, with the path it was
\* given.
ByFilesystem ==
    {i \in DOMAIN requests :
        /\ ServedBy(requests[i].result) # Nobody
        /\ Stages(requests[i].result)[1].op = "sendFile"}

\* What is at the place a request path names under the working directory,
\* after the extension probe and the directory probe.
Named(path) ==
    LET p2 == "." \o path
        p3 == IF ExtensionOf(p2) = "" THEN ProbeExtensions(p2, 1) ELSE p2
    IN  IF isDirectory(p3) THEN ProbeIndexes(p3, 1) ELSE p3

\* C15: a request the filesystem stage has settled is answered 200 with the
\* file and the Content-Type of its extension when its path names a readable
\* file, 404 through status dispatch when nothing is there, and 500 through
\* status dispatch when the read fails.
C15_FilesystemOutcome ==
    \A i \in ByFilesystem :
        LET res == requests[i].result
            f == Named(Stages(res)[1].arg)
            ext == at(split(f, "."), -1)
            dispatched == Events(res, "throwHttpError")
        IN  res.pc = "done" =>
              /\ (f \in DOMAIN Disk /\ Disk[f] = "file") =>
                    /\ res.statusCode = 200
                    /\ Events(res, "write") = <<[op |-> "write", server |-> ServedBy(res), arg |-> f]>>
                    /\ res.contentType = IF ext \in DOMAIN mimeTypes THEN mimeTypes[ext]
                                         ELSE mimeTypes["txt"]
              /\ f \notin DOMAIN Disk =>
                    /\ res.statusCode = 404
                    /\ dispatched = <<[op |-> "throwHttpError", server |-> ServedBy(res), arg |-> "404"]>>
              /\ (f \in DOMAIN Disk /\ Disk[f] = "unreadable") =>
                    /\ res.statusCode = 500
                    /\ dispatched = <<[op |-> "throwHttpError", server |-> ServedBy(res), arg |-> "500"]>>

MaxListed == 2

\* Listener registration and removal on one WebSocket registration.
NextListeners ==
    \/ Len(servers) = 0 /\ New("lo", 8080, {}, "")
    \/ \E n \in Ids : Len(websockets) = 0 /\ Websocket(n, "/chat")
    \/ \E w \in DOMAIN websockets, eventName \in {"connection", "message"},
          callback \in {"c1", "c2", "c3"} :
           /\ Len(websockets[w].eventListers) < MaxListed
           /\ Listen(w, eventName, callback)
    \/ \E w \in DOMAIN websockets, eventType \in {"connection", "message"},
          callback \in {"c1", "c2", "c3"} :
           RemoveListener(w, eventType, callback)

SpecListeners == Init /\ [][NextListeners]_vars

\* The list without its first entry for (kind, callback).
WithoutEntry(list, kind, callback) ==
    LET hits == {i \in DOMAIN list : list[i] = [eventName |-> kind, callback |-> callback]}
    IN  IF hits = {} THEN list
        ELSE SubSeq(list, 1, Min(hits) - 1) \o SubSeq(list, Min(hits) + 1, Len(list))

\* C17: removeListener(kind, cb) on a registration removes the entry that
\* was registered with cb for kind, and every other entry stays, in order.
C17_RemovalExact ==
    [][\A w \in DOMAIN websockets, kind \in {"connection", "message"},
          callback \in {"c1", "c2", "c3"} :
            (/\ \E i \in DOMAIN websockets[w].eventListers :
                    websockets[w].eventListers[i] = [eventName |-> kind, callback |-> callback]
             /\ RemoveListener(w, kind, callback)) =>
                websockets'[w].eventListers =
                    WithoutEntry(websockets[w].eventListers, kind, callback)]_vars

\* Connections of one WebSocket registration: listeners of every kind, both
\* outcomes of the access policy, upgrade requests with and without an
\* Origin header, for the registered path and for another.
NextEvents ==
    \/ Len(servers) = 0 /\ New("lo", 8080, {}, "")
    \/ \E n \in Ids : Len(websockets) = 0 /\ Websocket(n, "/chat")
    \/ \E w \in DOMAIN websockets, eventName \in {"connection", "message", "close"},
          callback \in {"c1", "c2"} :
           /\ Len(websockets[w].eventListers) < MaxListed
           /\ Listen(w, eventName, callback)
    \/ \E n \in Ids : DisableAll(n)
    \/ \E n \in Ids : EnableAll(n)
    \/ \E n \in Ids : Open(n)
    \/ \E l \in DOMAIN httpServers, origin \in {undefined, "http://lo:8080"},
          url \in {"/chat", "/none"} :
           Upgrade(l, UpgradeRequest("lo:8080", origin, url, "10.0.0.1"))
    \/ \E u \in DOMAIN upgrades, eventName \in {"message", "error", "close"} :
           SocketEvent(u, eventName)

SpecEvents == Init /\ [][NextEvents]_vars

\* The listeners of kind k of registration w as invocations, in the order
\* they were registered.
FanOut(w, k) ==
    LET L == SelectSeq(websockets[w].eventListers, LAMBDA e : e.eventName = k)
    IN  [i \in 1..Len(L) |-> [websocket |-> w, eventName |-> k, callback |-> L[i].callback]]

\* C18: when an event of kind k fires on a registration, the listeners
\* invoked for it are those registered there with kind k, in registration
\* order, and no other.
C18_FanOut ==
    [][/\ (UpgradeArrives /\ UpgradeArrived.websocket # Nobody) =>
              UpgradeArrived.invoked = FanOut(UpgradeArrived.websocket, "connection")
       /\ \A u \in DOMAIN upgrades, k \in {"message", "error", "close"} :
              SocketEvent(u, k) =>
                  upgrades'[u].invoked = upgrades[u].invoked \o FanOut(upgrades[u].websocket, k)]_vars

\* C19: an upgrade request for a registered path completes the handshake
\* and its connection is wired to the registration, without an error,
\* whatever the access policy says about logging the client.
C19_MatchedUpgrade ==
    [][(/\ UpgradeArrives
        /\ UpgradeArrived.handled
        /\ UpgradeArrived.request.headers.origin # undefined
        /\ UpgradeArrived.request.url \in DOMAIN WEBSOCKETS)
       => /\ UpgradeArrived.error = NoError
          /\ UpgradeArrived.state = "OPEN"
          /\ UpgradeArrived.subscribed]_vars

\* C20: an upgrade request for a path that is not in the path table is
\* ignored: no handshake, no listener, no error.
C20_HandshakeMismatch ==
    [][(/\ UpgradeArrives
        /\ UpgradeArrived.handled
        /\ UpgradeArrived.request.url \notin DOMAIN WEBSOCKETS)
       => UpgradeArrived = [NewUpgrade(UpgradeArrived.listener, UpgradeArrived.request)
                                EXCEPT !.handled = TRUE]]_vars

\* The remote addresses of the clients the logging decision is asked about.
Clients == {"10.0.0.1", "127.0.0.1", "::1", "::ffff:10.0.0.1"}

\* C21: in whitelist mode a client is logged exactly when its IP is in the
\* whitelist, in blacklist mode exactly when its IP is not in the blacklist,
\* and every client is logged when neither mode is enabled.
C21_LoggingDecision ==
    \A n \in Ids, a \in Clients :
        LET request == HttpRequest("lo:8080", "GET", "/p", a)
            logged == shouldLogFromRequest(n, request)
        IN  /\ info[n].whitelistEnabled =>
                 (logged <=> getIP(request) \in arrays[info[n].whitelistedIps])
            /\ info[n].blacklistEnabled =>
                 (logged <=> getIP(request) \notin arrays[info[n].blacklistedIps])
            /\ (~info[n].whitelistEnabled /\ ~info[n].blacklistEnabled) => logged

\* Status dispatch under every access policy: one root, with or without the
\* HIDESTATUSLOGS and FILESYSTEM flags, handlers for 404, and requests of
\* two clients that end in status dispatch.
NextLogs ==
    \/ \E flags \in {{}, {HIDESTATUSLOGS}, {HIDESTATUSLOGS, FILESYSTEM}} :
           Len(servers) = 0 /\ New("lo", 8080, flags, "")
    \/ \E n \in Ids, callback \in StatusCallbacks : Status(n, StatusCode(404), callback)
    \/ \E n \in Ids : EnableAll(n)
    \/ \E n \in Ids : DisableAll(n)
    \/ \E n \in Ids, ips \in {{}, {"10.0.0.1"}} : Whitelist(n, ips)
    \/ \E n \in Ids, ips \in {{}, {"10.0.0.1"}} : Blacklist(n, ips)
    \/ \E n \in Ids : Open(n)
    \/ \E l \in DOMAIN httpServers, url \in {"/q", "/bad.txt"}, a \in {"10.0.0.1", "::1"} :
           Request(l, HttpRequest("lo:8080", "GET", url, a))
    \/ \E i \in DOMAIN requests : ReadFileCallback(i)
    \/ \E i \in DOMAIN requests : StatusCallbackResolves(i)

SpecLogs == Init /\ [][NextLogs]_vars

\* C22: status dispatch on a server constructed with the HIDESTATUSLOGS flag
\* writes no status log line to the console.
C22_HideStatusLogs ==
    \A i \in DOMAIN requests :
        \A k \in DOMAIN requests[i].result.trace :
            LET e == requests[i].result.trace[k]
            IN  HIDESTATUSLOGS \in servers[e.server].flags => e.op # "console.log"

\* Registration calls on a root and its subdomain "ws", accepted and
\* rejected, and requests for both hosts with two methods.
NextRegistrations ==
    \/ Len(servers) = 0 /\ New("lo", 8080, {}, "")
    \/ \E n \in Ids, path \in {"/p", ""}, callback \in {"h1", "h2"},
          methods \in {MethodsOmitted, MethodsArray(<<>>)} :
           Endpoint(n, path, callback, methods)
    \/ \E domain \in {"ws", ""} : Len(servers) > 0 /\ Subdomain(1, domain, {}, "")
    \/ \E n \in Ids, code \in {StatusCode(404), StatusText(404)},
          callback \in {c \in StatusCallbacks : ~c.async /\ c.ends} :
           Status(n, code, callback)
    \/ \E n \in Ids : Open(n)
    \/ \E l \in DOMAIN httpServers, host \in {"lo:8080", "ws.lo:8080"}, method \in {"GET", "POST"} :
           Request(l, HttpRequest(host, method, "/p", "10.0.0.1"))

SpecRegistrations == Init /\ [][NextRegistrations]_vars

\* C23: endpoint() with an empty or registered path, subdomain() with an
\* empty or registered label and status() with a code that is not a number
\* leave the servers and the three tables of every node as they were.
C23_RejectedRegistrations ==
    [][/\ \A n \in Ids, path \in {"/p", ""}, callback \in {"h1", "h2"},
             methods \in {MethodsOmitted, MethodsArray(<<>>)} :
              (Endpoint(n, path, callback, methods) /\ (path = "" \/ path \in DOMAIN endpoints[n]))
              => UNCHANGED <<servers, endpoints, subdomains, statusHandelers>>
       /\ \A n \in Ids, domain \in {"ws", ""} :
              (Subdomain(n, domain, {}, "") /\ (domain = "" \/ domain \in DOMAIN subdomains[n]))
              => UNCHANGED <<servers, endpoints, subdomains, statusHandelers>>
       /\ \A n \in Ids, callback \in {c \in StatusCallbacks : ~c.async /\ c.ends} :
              Status(n, StatusText(404), callback)
              => UNCHANGED <<servers, endpoints, subdomains, statusHandelers>>]_vars

\* C23 witness: subdomain("ws") was rejected on a root whose table holds the
\* child that was registered first.
C23_Witness ==
    /\ Len(servers) = 2
    /\ "ws" \in DOMAIN subdomains[1]
    /\ subdomains[1]["ws"] = 2
    /\ stderr = [server |-> 1, line |-> "Cannot overwrite http://ws.lo:8080"]

\* C25: an endpoint registered with the method list omitted or with an empty
\* list is invoked for a request to its path whatever the request's method.
C25_NoMethodsMatchesAll ==
    [][Arrives /\ ServedBy(Arrived.result) # Nobody =>
          LET n == ServedBy(Arrived.result)
              path == Arrived.result.trace[1].arg
              table == endpoints[n]
          IN  (/\ path \in DOMAIN table
               /\ table[path].methods \in {null, MethodsArray(<<>>)})
              => \E k \in DOMAIN Arrived.result.trace :
                     /\ Arrived.result.trace[k].op = "endpoint"
                     /\ Arrived.result.trace[k].server = n]_vars

\* C24: status() with a numeric code always stores its handler, replacing
\* the one registered before for that code, and prints nothing; a dispatch of
\* the code invokes the handler stored at that moment.
C24_StatusReplaces ==
    [][/\ \A n \in Ids, callback \in StatusCallbacks :
              Status(n, StatusCode(404), callback)
              => /\ statusHandelers'[n] = Put(statusHandelers[n], "404", callback)
                 /\ stderr' = stderr
       /\ Arrives =>
              \A k \in DOMAIN Arrived.result.trace :
                  LET e == Arrived.result.trace[k]
                  IN  e.op = "statusHandler"
                      => /\ Arrived.result.trace[k - 1].op = "throwHttpError"
                         /\ Arrived.result.trace[k - 1].arg \in DOMAIN statusHandelers[e.server]
                         /\ e.arg = statusHandelers[e.server][Arrived.result.trace[k - 1].arg].name]_vars

\* C24 witness: a request was dispatched to the 404 handler of the root, and
\* a later status(404, ...) put another handler in its place.
C24_Witness ==
    \E i \in DOMAIN requests :
        LET handled == Events(requests[i].result, "statusHandler")
        IN  /\ Len(handled) = 1
            /\ "404" \in DOMAIN statusHandelers[handled[1].server]
            /\ statusHandelers[handled[1].server]["404"].name # handled[1].arg

RECURSIVE Ancestor(_, _)
\* The node reached from n by following at most k parent references.
Ancestor(n, k) ==
    IF k = 0 \/ servers[n].parentServer = Nobody THEN n
    ELSE Ancestor(servers[n].parentServer, k - 1)

\* C30: a node held in the subdomain table of n has n as its parent and the
\* listener of n, and following the parent references from it ends, within
\* as many steps as there are servers, at a root that owns that listener.
C30_NodeTree ==
    \A n \in Ids : \A d \in DOMAIN subdomains[n] :
        LET c == subdomains[n][d]
            root == Ancestor(c, Len(servers))
        IN  /\ servers[c].parentServer = n
            /\ servers[c]._httpServer = servers[n]._httpServer
            /\ servers[root].parentServer = Nobody
            /\ _SUBDOMAIN \notin servers[root].flags
            /\ servers[root]._httpServer = root
            /\ servers[c]._httpServer = root

\* C30 witness: a subdomain of a subdomain of the root.
C30_Witness ==
    \E n \in Ids : \E d \in DOMAIN subdomains[n] :
        /\ servers[n].parentServer # Nobody
        /\ servers[servers[n].parentServer].parentServer = Nobody
        /\ n \in {subdomains[servers[n].parentServer][e] : e \in DOMAIN subdomains[servers[n].parentServer]}
        /\ servers[subdomains[n][d]]._httpServer = servers[n].parentServer

\* C27: when the close event of a connection is handled, the close listeners
\* of its registration are invoked once, in order, the socket is closed and
\* keeps no subscription, and no listener is invoked for it afterwards.
C27_CloseHandled ==
    [][\A u \in DOMAIN upgrades :
          /\ SocketEvent(u, "close") =>
                 /\ upgrades'[u].invoked = upgrades[u].invoked \o FanOut(upgrades[u].websocket, "close")
                 /\ upgrades'[u].error = NoError
                 /\ upgrades'[u].state = "CLOSED"
                 /\ ~upgrades'[u].subscribed
          /\ upgrades[u].state = "CLOSED" => upgrades'[u].invoked = upgrades[u].invoked]_vars

\* WebSocket registrations on a root and on a subdomain that is then removed
\* from the root's table, and upgrade requests for the registered path.
NextDetached ==
    \/ Len(servers) = 0 /\ New("lo", 8080, {}, "")
    \/ Len(servers) > 0 /\ Subdomain(1, "ws", {}, "")
    \/ \E n \in Ids : Websocket(n, "/chat")
    \/ \E w \in DOMAIN websockets :
           /\ Len(websockets[w].eventListers) < MaxListeners
           /\ Listen(w, "connection", "c1")
    \/ \E n \in Ids : RemoveAllSubdomains(n)
    \/ \E n \in Ids : DisableAll(n)
    \/ \E n \in Ids : Open(n)
    \/ \E l \in DOMAIN httpServers, host \in {"lo:8080", "ws.lo:8080"} :
           Upgrade(l, UpgradeRequest(host, "http://lo:8080", "/chat", "10.0.0.1"))

SpecDetached == Init /\ [][NextDetached]_vars

\* A node that no subdomain table leads to from its root.
Detached(n) == n \notin Under(Ancestor(n, Len(servers)), MaxServers)

\* C28: a registered path stays in the path table with its registration; a
\* later websocket(p) for it is a collision; and an upgrade for p whose
\* registration sits on a node removed by removeAllSubdomains() still reaches
\* the connection listeners of that registration.
C28_RegistrationKept ==
    [][/\ \A p \in DOMAIN WEBSOCKETS :
              p \in DOMAIN WEBSOCKETS' /\ WEBSOCKETS'[p] = WEBSOCKETS[p]
       /\ \A n \in Ids, p \in DOMAIN WEBSOCKETS :
              Websocket(n, p) => ~websockets'[Len(websockets')].connected
       /\ (/\ UpgradeArrives
           /\ UpgradeArrived.handled
           /\ UpgradeArrived.request.url \in DOMAIN WEBSOCKETS
           /\ Detached(websockets[WEBSOCKETS[UpgradeArrived.request.url]].parentServer))
          => /\ UpgradeArrived.websocket = WEBSOCKETS[UpgradeArrived.request.url]
             /\ UpgradeArrived.invoked = FanOut(UpgradeArrived.websocket, "connection")]_vars

\* Requests that are in progress on one listener at the same time.
MaxConcurrent == 2

\* The requests of SpecPolicy.
LogRequests == {HttpRequest("lo:8080", "GET", url, "10.0.0.1") : url \in {"/q", "/bad.txt"}}

\* One root whose 404 handler is registered before it opens, every policy
\* call at any time, and two requests that end in the built-in page
\* directly, after a handler or after a failed read.
NextPolicy ==
    \/ \E flags \in {{}, {FILESYSTEM}} : Len(servers) = 0 /\ New("lo", 8080, flags, "")
    \/ \E n \in Ids, callback \in {c \in StatusCallbacks : ~c.ends \/ c.async} :
           /\ ~httpServers[servers[n]._httpServer].listening
           /\ Status(n, StatusCode(404), callback)
    \/ \E n \in Ids : EnableAll(n)
    \/ \E n \in Ids : DisableAll(n)
    \/ \E n \in Ids : Whitelist(n, {"10.0.0.1"})
    \/ \E n \in Ids : Blacklist(n, {"10.0.0.1"})
    \/ \E n \in Ids : Open(n)
    \/ \E l \in DOMAIN httpServers, r \in LogRequests : Accept(l, r, MaxConcurrent)
    \/ \E i \in DOMAIN requests : ReadFileCallback(i)
    \/ \E i \in DOMAIN requests : StatusCallbackResolves(i)

SpecPolicy == Init /\ [][NextPolicy]_vars

\* A response without its log lines: the node, the stages, the heads, the
\* bodies and what is still pending.
Unlogged(res) == [res EXCEPT !.trace = SelectSeq(@, LAMBDA e : e.op # "console.log")]

\* The events a step added to the trace of response i.
Added(i) ==
    IF i \in DOMAIN requests
    THEN SubSeq(requests'[i].result.trace, Len(requests[i].result.trace) + 1,
                Len(requests'[i].result.trace))
    ELSE requests'[i].result.trace

\* C29: with the same registrations, two requests that are the same get the
\* same response (node, stages, status, body) whatever the access policy was
\* when each was served; the policy decides only whether the log line of the
\* built-in page is printed, and the line comes right after the response ended.
C29_PolicyNoEffect ==
    [][/\ \A i, j \in DOMAIN requests' :
              (/\ requests'[i].request = requests'[j].request
               /\ requests'[i].result.pc = requests'[j].result.pc)
              => Unlogged(requests'[i].result) = Unlogged(requests'[j].result)
       /\ \A i \in DOMAIN requests' :
              LET added == Added(i)
                  res == requests'[i].result
                  logs == SelectSeq(added, LAMBDA e : e.op = "console.log")
                  builtin == \E k \in DOMAIN added :
                                 /\ added[k].op = "end"
                                 /\ res.contentType = "text/plain"
                                 /\ res.statusCode # 200
              IN  /\ \A k \in DOMAIN added :
                         added[k].op = "console.log" => (k > 1 /\ added[k - 1].op = "end")
                  /\ Len(logs) = IF builtin /\ shouldLogFromRequest(res.trace[1].server, requests'[i].request)
                                 THEN 1 ELSE 0]_vars

\* C29 witness: the same request was answered twice with the 404 page, once
\* with the log line and once, under another policy, without it.
C29_Witness ==
    \E i, j \in DOMAIN requests :
        /\ requests[i].request = requests[j].request
        /\ requests[i].result.writableEnded /\ requests[j].result.writableEnded
        /\ requests[i].result.statusCode = 404 /\ requests[j].result.statusCode = 404
        /\ Events(requests[i].result, "console.log") = <<>>
        /\ Events(requests[j].result, "console.log") # <<>>

\* The responses that wait for an async status callback or for a file.
Waiting == {i \in DOMAIN requests : requests[i].result.pc # "done"}

\* C26: a request that arrives while a response waits for its async status
\* handler or for its file is answered as it would be with nothing waiting,
\* completely unless it waits itself; a step writes to one response only,
\* and a waiting response is written by its own continuation only.
C26_OnlyOwnRequestDelayed ==
    [][/\ (Arrives /\ Waiting # {}) =>
              /\ Arrived.result = processRequest(NewResult, Arrived.listener, Arrived.request, undefined)
              /\ Arrived.result.pc = "done" => Arrived.result.writableEnded
       /\ \A i \in DOMAIN requests :
              requests'[i] # requests[i] =>
                  /\ i \in Waiting
                  /\ ReadFileCallback(i) \/ StatusCallbackResolves(i)
                  /\ \A j \in DOMAIN requests \ {i} : requests'[j] = requests[j]]_vars

\* C26 witness: the first response still waits for its async 404 handler and
\* the second request, which arrived later, has its complete response.
C26_Witness ==
    /\ Len(requests) = 2
    /\ requests[1].result.pc = "await"
    /\ requests[2].result.pc = "done"
    /\ requests[2].result.writableEnded
    /\ Events(requests[2].result, "end") # <<>>

\* The probes of the filesystem stage: paths without an extension that name
\* a file with a default extension, a directory with or without an index,
\* a file saved next to a copy with a second extension, or nothing.
NextProbe ==
    \/ Len(servers) = 0 /\ New("lo", 8080, {FILESYSTEM}, "")
    \/ \E n \in Ids, code \in {StatusCode(404), StatusCode(500)}, callback \in StatusCallbacks :
           Status(n, code, callback)
    \/ \E n \in Ids : Open(n)
    \/ \E l \in DOMAIN httpServers, url \in {"/p", "/e", "/g", "/d", "/f", "/q"} :
           Request(l, HttpRequest("lo:8080", "GET", url, "10.0.0.1"))
    \/ \E i \in DOMAIN requests : ReadFileCallback(i)
    \/ \E i \in DOMAIN requests : StatusCallbackResolves(i)

SpecProbe == Init /\ [][NextProbe]_vars

\* The path with the extension of the first default index for which
\* path + extension exists; the path itself when there is none.
FirstExtension(pathname) ==
    LET hits == {j \in DOMAIN defaultIndexes : existsSync(pathname \o ExtensionOf(defaultIndexes[j]))}
    IN  IF hits = {} THEN pathname
        ELSE pathname \o ExtensionOf(defaultIndexes[Min(hits)])

\* C31: for a path without an extension the probe appends the extension of
\* the first default index for which path + extension exists, that one
\* only, and nothing when there is none; a file that is read after the probe
\* is the one so named.
C31_ExtensionProbe ==
    \A i \in ByFilesystem :
        LET res == requests[i].result
            P == "." \o Stages(res)[1].arg
            reads == Events(res, "readFile")
        IN  ExtensionOf(P) = "" =>
                /\ ProbeExtensions(P, 1) = FirstExtension(P)
                /\ (reads # <<>> /\ ~isDirectory(FirstExtension(P))) => reads[1].arg = FirstExtension(P)

\* A FILESYSTEM root configured with the root directory pub, and requests
\* for a file inside it and for one outside it through dot-segments, plain,
\* percent-encoded once and percent-encoded twice.
NextContained ==
    \/ \E rootDirectory \in {"pub", "pub/"} :
           Len(servers) = 0 /\ New("lo", 8080, {FILESYSTEM}, rootDirectory)
    \/ \E n \in Ids, callback \in StatusCallbacks : Status(n, StatusCode(404), callback)
    \/ \E n \in Ids : Open(n)
    \/ \E l \in DOMAIN httpServers,
          url \in {"/in.html", "/in", "/../p.html", "/%2e%2e/p.html", "/%252e%252e/p.html", "/q"} :
           Request(l, HttpRequest("lo:8080", "GET", url, "10.0.0.1"))
    \/ \E i \in DOMAIN requests : ReadFileCallback(i)
    \/ \E i \in DOMAIN requests : StatusCallbackResolves(i)

SpecContained == Init /\ [][NextContained]_vars

\* C32: every file the filesystem stage of a node with a root directory
\* reads lies inside that directory.
C32_RootContainment ==
    \A i \in DOMAIN requests : \A k \in DOMAIN requests[i].result.trace :
        LET e == requests[i].result.trace[k]
            root == servers[e.server].customData.rootDirectory
            inside == "./" \o (IF endsWith(root, "/") THEN root ELSE root \o "/")
        IN  (e.op = "readFile" /\ root # "") => startsWith(e.arg, inside)

\* Status callbacks that write a head and return without ending the
\* response: a plain function and an async one.
PartialCallbacks ==
    {[name |-> "head", async |-> FALSE, ends |-> FALSE, deferred |-> FALSE, heads |-> TRUE],
     [name |-> "headLater", async |-> TRUE, ends |-> FALSE, deferred |-> FALSE, heads |-> TRUE]}

\* Status dispatch with handlers of every kind, those that leave the
\* response half written included, an endpoint, and requests that end in the
\* endpoint, in a 404 or in a failed file read.
NextSingle ==
    \/ \E flags \in {{}, {FILESYSTEM}} :
           Len(servers) = 0 /\ New("lo", 8080, flags, "")
    \/ \E n \in Ids : Endpoint(n, "/p", "h1", MethodsOmitted)
    \/ \E n \in Ids, code \in {StatusCode(404), StatusCode(500)},
          callback \in StatusCallbacks \cup AsynchronousCallbacks \cup PartialCallbacks :
           Status(n, code, callback)
    \/ \E n \in Ids : Open(n)
    \/ \E l \in DOMAIN httpServers, url \in {"/p", "/q", "/bad.txt"} :
           Request(l, HttpRequest("lo:8080", "GET", url, "10.0.0.1"))
    \/ \E i \in DOMAIN requests : ReadFileCallback(i)
    \/ \E i \in DOMAIN requests : StatusCallbackResolves(i)
    \/ \E i \in DOMAIN requests : StatusCallbackSettles(i)

SpecSingle == Init /\ [][NextSingle]_vars

C35_DirectoryWithoutIndex ==
    \A i \in ByFilesystem :
        LET res == requests[i].result
            f == Named(Stages(res)[1].arg)
        IN  isDirectory(f) =>
                /\ Events(res, "readFile") = <<[op |-> "readFile", server |-> ServedBy(res), arg |-> f]>>
                /\ Events(res, "write") = <<>>
                /\ res.pc = "done" =>
                       /\ Events(res, "throwHttpError")
                              = <<[op |-> "throwHttpError", server |-> ServedBy(res), arg |-> "500"]>>
                       /\ res.writableEnded
                       /\ res.statusCode = 500

\* C35 witness: /f, a directory without an index, was answered 500.
C35_Witness ==
    \E i \in ByFilesystem :
        /\ Stages(requests[i].result)[1].arg = "/f"
        /\ isDirectory("./f")
        /\ requests[i].result.pc = "done"
        /\ requests[i].result.statusCode = 500
        /\ requests[i].result.writableEnded

\* ---------------------------------------------------------------------
\* Removal during the fan-out (lib/websocket.js 133-145, 165-168)
\* ---------------------------------------------------------------------

MaxDispatched == 3

\* One websocket on an open server that lets every request through without
\* a log line, with up to MaxDispatched "message" listeners, some of which
\* remove a listener when they are called.
NextDispatch ==
    \/ Len(servers) = 0 /\ New("lo", 8080, {}, "")
    \/ \E n \in Ids : Len(websockets) = 0 /\ Websocket(n, "/chat")
    \/ \E w \in DOMAIN websockets, callback \in {"c1", "once", "drop"} :
           /\ Len(websockets[w].eventListers) < MaxDispatched
           /\ Listen(w, "message", callback)
    \/ \E n \in Ids : ~info[n].whitelistEnabled /\ DisableAll(n)
    \/ \E n \in Ids : Open(n)
    \/ \E l \in DOMAIN httpServers :
           /\ \A n \in Ids : info[n].whitelistEnabled
           /\ Upgrade(l, UpgradeRequest("lo:8080", "http://lo:8080", "/chat", "10.0.0.1"))
    \/ \E u \in DOMAIN upgrades : SocketEvent(u, "message")

SpecDispatch == Init /\ [][NextDispatch]_vars

\* The listeners of websocket w carry pairwise different ids, and every
\* listener that removes another one stands after the one it removes: a
\* removal during the fan-out of w then hits the caller or an earlier entry.
RemovesSelfOrEarlier(w) ==
    LET L == websockets[w].eventListers
    IN  /\ \A a, b \in 1..Len(L) : a # b => marks[L[a].callback] # marks[L[b].callback]
        /\ \A j \in 1..Len(L) :
               L[j].callback = "drop" => \E a \in 1..(j - 1) : L[a].callback = "c1"

\* C34: when a "message" event fires and the listeners remove only
\* themselves or earlier listeners while the fan-out runs, every listener
\* registered for "message" at that moment is invoked exactly once, in
\* registration order.
C34_RemovalDuringDispatch ==
    [][\A u \in DOMAIN upgrades :
          (/\ SocketEvent(u, "message")
           /\ upgrades'[u].error = NoError
           /\ RemovesSelfOrEarlier(upgrades[u].websocket))
          => upgrades'[u].invoked =
                 upgrades[u].invoked \o FanOut(upgrades[u].websocket, "message")]_vars

====
